---- MODULE Spec2Model ----
(***************************************************************************)
(* A model of mitoxide: the stream multiplexer and the frame codec of      *)
(* mitoxide-proto (stream.rs, codec.rs, frame.rs), the client router and   *)
(* session of the mitoxide crate (router.rs, session.rs), the agent loop   *)
(* and process handler of mitoxide-agent (agent.rs, handlers.rs), the      *)
(* connection pool, transport and bootstrap of mitoxide-ssh (pool.rs,      *)
(* transport.rs, bootstrap.rs) and the module loader of mitoxide-wasm.     *)
(*                                                                         *)
(* SpecMux    : the multiplexer under its public operations, two streams.  *)
(* SpecFlow   : one stream, its handle's send path and its flow control.   *)
(* SpecClose  : one stream, its handle and the frames routed to it.        *)
(* SpecClone  : a multiplexer and a clone of it creating streams.          *)
(* SpecRouter : the router, its connection handler task, the callers of    *)
(*              send_message and the session's disconnect.                 *)
(* SpecCodec  : frames encoded onto a byte stream and decoded from reads   *)
(*              of any size.                                               *)
(* SpecAgent  : the agent loop reading frames from stdin and answering on  *)
(*              stdout.                                                    *)
(* SpecPool   : the connection pool, its borrowers, the return tasks and   *)
(*              the health check.                                          *)
(* SpecLimit  : encode_frame and try_decode_frame at the frame size limit. *)
(* SpecSession: Session::connect over StdioTransport, the ssh children it  *)
(*              spawns and the agent on the remote host.                   *)
(* SpecBootstrap : Bootstrap probing a host and choosing its script.       *)
(* SpecExec   : the agent's ProcessHandler answering ProcessExec requests. *)
(* SpecWasm   : WasmModule::from_bytes on module bytes (mitoxide-wasm).    *)
(* SpecAgentRouter : the agent's router, its handler tasks and the writer  *)
(*              they share.                                                *)
(* SpecLoop   : one handle sending while process_frames runs.              *)
(* SpecRetry  : one call of the pool's connect_with_retries.               *)
(* SpecHealth : the pool's entries with their age, and the health check.   *)
(* SpecEvict  : the multiplexer when nobody closes a stream.               *)
(* SpecSend   : the connection handler sending a long run of messages.     *)
(* SpecSeq    : the sequence counters of one stream over a long run.       *)
(* SpecCache  : the WASM handler and its module cache.                     *)
(***************************************************************************)
EXTENDS Integers, Sequences, FiniteSets, TLC

----------------------------------------------------------------------------
(* Bounds of the model *)

\* streams created through create_stream
MaxStreams == 2
\* largest sequence number carried by a frame offered to route_frame or
\* send_frame
MaxSeq == 1
\* frames one handle sends
MaxSends == 2
\* frames waiting in the multiplexer's frame channel
MaxQueue == 1
\* FlowControlConfig.initial_window_size chosen for the run
InitialWindowSize == 2
\* largest payload length handed to send_data
MaxPayload == 3
\* largest ordinary window update / acknowledgement
MaxDelta == 2
\* cap on the windows that update_window / ack_processed_data may build up
MaxWindow == 3
\* FlowControlConfig.max_window_size chosen for the run
MaxWindowSize == 2

\* calls of send_message
MaxCalls == 2
\* request ids in use
MaxIds == 2
\* max_streams handed to Router::new: the capacity of the message channel
MaxStreamsCap == 1

\* callers of the connection pool
MaxClients == 3

\* max_connections_per_host of the pool's configuration
MaxConnectionsPerHost == 2

\* how many connections connect() makes
MaxCreated == 3

\* how many writes the agent's stdin takes
MaxStdinItems == 2

\* how many frames are encoded onto one byte stream, and the largest read
MaxEncoded == 2
MaxChunk == 3

\* max_frame_size of the codecs (with_max_frame_size), in bytes
MaxFrameSize == 12

\* the modulus of u32 arithmetic, scaled from 2^32 to the magnitudes of the
\* model: counters and windows wrap at U32 the way the u32 fields wrap
U32 == 16

StreamIds == 1..MaxStreams
PayloadSizes == 0..MaxPayload
Deltas == (1..MaxDelta) \cup {U32 - 1}

----------------------------------------------------------------------------
(* State of the multiplexer *)

VARIABLES
    next_stream_id,   \* StreamMultiplexer.next_stream_id
    streams,          \* StreamMultiplexer.streams: stream id -> StreamInfo
    frame_queue,      \* the frame_sender / frame_receiver channel
    pf_running,       \* a call of process_frames is in progress
    handles,          \* the StreamHandles handed out, in order of creation
    rx,               \* per handle: its frame_receiver queue
    delivered,        \* history: per handle, every sequence ever queued to it
    mismatched,       \* history: stream ids that saw a sequence mismatch
    routed_past,      \* history: a frame was delivered to one stream after
                      \* another stream had seen a sequence mismatch
    ret               \* what the last StreamHandle call returned (none after
                      \* a step of another kind)

muxVars == <<next_stream_id, streams, frame_queue, pf_running, handles, rx,
             delivered, mismatched, routed_past, ret>>

----------------------------------------------------------------------------
(* State of the client router and the session *)

VARIABLES
    constructed,      \* Router::new has returned and the session is built
    pending,          \* Router.pending_requests: request id -> the call whose
                      \* oneshot sender the entry holds
    msg_chan,         \* the message_tx / message_rx channel
    call_pc,          \* per call of send_message: where it is
    call_id,          \* per call: the request id of its message
    slot,             \* per call: its oneshot channel
    result,           \* per call: what send_message returned
    h_pc,             \* the connection handler task: running or stopped
    h_reason,         \* why the handler left its loop
    conn_next_stream_id,  \* ConnectionHandler.next_stream_id
    wire,             \* history: the frames written to the transport
    status,           \* SessionState.status
    disc_pc,          \* the call of disconnect: where it is
    disc_result,      \* what disconnect returned
    pending_at_stop,  \* history: the calls pending when the transport closed
    outstanding_at_shutdown  \* history: the calls pending when disconnect
                      \* called Router::shutdown

routerVars == <<constructed, pending, msg_chan, call_pc, call_id, slot, result,
                h_pc, h_reason, conn_next_stream_id, wire, status, disc_pc,
                disc_result, pending_at_stop, outstanding_at_shutdown>>

----------------------------------------------------------------------------
(* State of a second multiplexer value made by Clone *)

VARIABLES
    cloned,               \* StreamMultiplexer::clone has been called
    clone_next_stream_id  \* next_stream_id of the clone: its own AtomicU32

cloneVars == <<cloned, clone_next_stream_id>>

----------------------------------------------------------------------------
(* State of the agent loop *)

VARIABLES
    agent_pc,        \* AgentLoop: "setup" before run, "running", "stopped"
    agent_handlers,  \* AgentLoop.handlers: the request types with a handler
    stdin,           \* the bytes written to the agent's stdin and not yet read
    stdin_closed,    \* the writer of the agent's stdin has closed it
    agent_buf,       \* read_buf of the agent's codec
    agent_out,       \* history: the bytes of each write_frame to stdout
    stdin_items,     \* history: how many writes the agent's stdin has taken
    agent_shutdown,  \* the shutdown oneshot: "unsent", "sent" or "dropped"
    agent_seen,      \* history: the frames passed to process_frame, each with
                     \* what the handler did
    agent_errors     \* history: the errors read_frame has returned

agentVars == <<agent_pc, agent_handlers, stdin, stdin_closed, agent_buf,
               agent_out, stdin_items, agent_shutdown, agent_seen,
               agent_errors>>

----------------------------------------------------------------------------
(* State of a codec and the byte stream it reads *)

VARIABLES
    encoded,      \* history: the frames written with encode_frame, in order
    byte_stream,  \* their encodings, concatenated, not yet read
    read_buf,     \* FrameCodec.read_buf
    decoded,      \* history: the frames try_decode_frame has returned
    last_decode,  \* history: the last call of try_decode_frame
    last_encode   \* history: the last call of encode_frame on a writer whose
                  \* max_frame_size was chosen for the call

codecVars == <<encoded, byte_stream, read_buf, decoded, last_decode,
               last_encode>>

----------------------------------------------------------------------------
(* State of the connection pool *)

VARIABLES
    pool_started,   \* the health check task runs
    ssh_configs,    \* ConnectionPool.ssh_configs: the hosts configured
    connections,    \* ConnectionPool.connections: host -> Vec<PoolEntry>
    created,        \* history: the host of each connection connect() made
    borrowed,       \* the PooledConnection values alive, by connection
    acquiring,      \* calls of get_connection past get_existing_connection
    returning,      \* tasks spawned by Drop that will call return_connection
    handed_out,     \* history: what get_existing_connection took, and from
                    \* which entries
    overlapped,     \* history: a get_connection began while another
                    \* PooledConnection was held or being acquired
    disturbed,      \* history: a connection was closed, reaped or refused
    discarded       \* history: the connections return_connection dropped
                    \* because the pool was full

poolVars == <<pool_started, ssh_configs, connections, created, borrowed,
              acquiring, returning, handed_out, overlapped, disturbed,
              discarded>>

----------------------------------------------------------------------------
(* State of Session::connect, its transport and the remote host *)

VARIABLES
    sess_pc,          \* Session::connect: where the call is
    sess_config,      \* SessionConfig: bootstrap_agent, and whether
                      \* agent_config.binary_path is set
    sess_status,      \* SessionState.status of the call
    sess_steps,       \* history: the steps of connect that have succeeded
    sess_result,      \* what Session::connect returned
    ssh_procs,        \* the ssh child processes spawned, in order: what each
                      \* was started for, whether it runs, its exit status,
                      \* how much its stdin has taken and whether it is closed
    transport,        \* StdioTransport.ssh_process and .connected
    sess_connection,  \* the child held by the Connection connect() returned
    sess_router,      \* the child behind the connection of the Router
    remote_agent,     \* the agent on the remote host: the ssh child whose
                      \* remote stdin and stdout it has, and whether it runs
    boot_pc           \* bootstrap_agent: where the call is

sessionVars == <<sess_pc, sess_config, sess_status, sess_steps, sess_result,
                 ssh_procs, transport, sess_connection, sess_router,
                 remote_agent, boot_pc>>

----------------------------------------------------------------------------
(* State of a Bootstrap value and the host it probes *)

VARIABLES
    bs_pc,        \* Bootstrap: "none" before new, then where detect_platform is
    bs_host,      \* the remote host: its uname -s and what each probe finds
    bs_custom,    \* Bootstrap.custom_script is set
    bs_methods,   \* detect_bootstrap_methods: its local Vec methods
    bs_platform,  \* Bootstrap.platform_info: none, or the methods detected
    bs_script     \* what the last generate_bootstrap_script returned

bootVars == <<bs_pc, bs_host, bs_custom, bs_methods, bs_platform, bs_script>>

baseVars == <<muxVars, routerVars, cloneVars, agentVars, codecVars, poolVars>>

----------------------------------------------------------------------------
(* State of the agent's ProcessHandler *)

VARIABLES
    px_pc,        \* ProcessHandler::handle: where the call is
    px_request,   \* the ProcessExec request: length of command, whether
                  \* timeout and stdin are set
    px_child,     \* the child process: whether it runs, and its exit code
    px_cause,     \* history: why the call ended
    px_answers    \* history: the responses handle_request has sent

execVars == <<px_pc, px_request, px_child, px_cause, px_answers>>

----------------------------------------------------------------------------
(* State of a load of a WASM module *)

VARIABLES
    wasm_pc,      \* "none", "read" once the bytes are there, "loaded" after
                  \* WasmModule::from_bytes
    wasm_bytes,   \* the bytes handed to from_bytes: their length, their first
                  \* four bytes, and what a parse of them yields
    wasm_result   \* what from_bytes returned

wasmVars == <<wasm_pc, wasm_bytes, wasm_result>>

----------------------------------------------------------------------------
(* State of the AgentRouter and the tasks that answer its requests *)

VARIABLES
    ar_routed,     \* history: how many frames route_frame has been given
    ar_queue,      \* the request_tx / request_rx channel
    ar_writers,    \* the tasks spawned by start_processing, and the call of
                   \* route_frame when it sends an error frame: where each
                   \* is, the frame it writes and how much of it is written
    ar_lock,       \* the tokio Mutex around the writer: its holder, or 0
    ar_out,        \* the bytes the writer has taken
    ar_started,    \* history: the encoded frames, in the order in which
                   \* their writes began
    ar_contended   \* history: bytes were written while another writer
                   \* waited for the lock

arVars == <<ar_routed, ar_queue, ar_writers, ar_lock, ar_out, ar_started,
            ar_contended>>

----------------------------------------------------------------------------
(* State of a call of connect_with_retries *)

VARIABLES
    rt_pc,          \* connect_with_retries: where the call is
    rt_max,         \* PoolConfig.max_retries
    rt_attempt,     \* the loop variable attempt
    rt_last_error,  \* the local last_error
    rt_log,         \* history: the attempts, each with how it ended, and the
                    \* sleeps, in order
    rt_result       \* what the call returned

retryVars == <<rt_pc, rt_max, rt_attempt, rt_last_error, rt_log, rt_result>>

----------------------------------------------------------------------------
(* State of the pool as the health check sees it *)

VARIABLES
    hc_now,          \* Instant::now(), in units of the clock
    hc_connections,  \* ConnectionPool.connections with the time of each
                     \* entry: a map from the hosts present to Vec<PoolEntry>
    hc_held,         \* the connections callers took from the pool
    hc_checked,      \* history: the last step was a pass of the health check
    hc_reaped        \* history: how many entries the passes dropped

healthVars == <<hc_now, hc_connections, hc_held, hc_checked, hc_reaped>>

----------------------------------------------------------------------------
(* State of a connection handler that sends a long run of messages *)

VARIABLES
    sm_next_stream_id,  \* ConnectionHandler.next_stream_id
    sm_handled,         \* history: how many messages send_message was given
    sm_frames           \* history: per message, the frame send_message
                        \* built and whether stdin took it

sendVars == <<sm_next_stream_id, sm_handled, sm_frames>>

----------------------------------------------------------------------------
(* State of one stream over a long run of frames *)

VARIABLES
    sq_handle_next,  \* StreamHandle.next_sequence of the stream's handle
    sq_info_next,    \* StreamInfo.next_sequence of the stream
    sq_sent,         \* history: the sequences of the frames the handle sent
    sq_accepted,     \* history: the sequences of the frames route_frame
                     \* accepted for the stream
    sq_panicked,     \* route_frame panicked on the overflow of its counter
    sq_ret           \* what the last call returned

seqVars == <<sq_handle_next, sq_info_next, sq_sent, sq_accepted, sq_panicked,
             sq_ret>>

----------------------------------------------------------------------------
(* State of the WASM handler *)

VARIABLES
    wh_module_cache,  \* WasmHandler.module_cache: hash -> WasmModule
    wh_parsed,        \* history: per module bytes, the calls of from_bytes
    wh_compiled,      \* history: per module bytes, the compilations made by
                      \* get_compiled
    wh_executed,      \* history: per module bytes, the requests handled
    wh_response       \* the last response of the handler

cacheVars == <<wh_module_cache, wh_parsed, wh_compiled, wh_executed,
               wh_response>>

\* the state of the specifications added for single components
lateVars == <<arVars, retryVars, healthVars, sendVars, seqVars, cacheVars>>
extraVars == <<sessionVars, bootVars, execVars, wasmVars, lateVars>>
nonSessionVars == <<baseVars, bootVars, execVars, wasmVars, lateVars>>
nonBootVars == <<baseVars, sessionVars, execVars, wasmVars, lateVars>>
nonExecVars == <<baseVars, sessionVars, bootVars, wasmVars, lateVars>>
nonWasmVars == <<baseVars, sessionVars, bootVars, execVars, lateVars>>
earlyVars == <<baseVars, sessionVars, bootVars, execVars, wasmVars>>
nonArVars == <<earlyVars, retryVars, healthVars, sendVars, seqVars, cacheVars>>
nonRetryVars == <<earlyVars, arVars, healthVars, sendVars, seqVars, cacheVars>>
nonHealthVars == <<earlyVars, arVars, retryVars, sendVars, seqVars, cacheVars>>
nonSendVars == <<earlyVars, arVars, retryVars, healthVars, seqVars, cacheVars>>
nonSeqVars == <<earlyVars, arVars, retryVars, healthVars, sendVars, cacheVars>>
nonCacheVars == <<earlyVars, arVars, retryVars, healthVars, sendVars, seqVars>>

nonMuxVars == <<routerVars, cloneVars, agentVars, codecVars, poolVars,
                extraVars>>
nonRouterVars == <<muxVars, cloneVars, agentVars, codecVars, poolVars,
                   extraVars>>
nonAgentVars == <<muxVars, routerVars, cloneVars, codecVars, poolVars,
                  extraVars>>
nonCodecVars == <<muxVars, routerVars, cloneVars, agentVars, poolVars,
                  extraVars>>
nonPoolVars == <<muxVars, routerVars, cloneVars, agentVars, codecVars,
                 extraVars>>

vars == <<muxVars, routerVars, cloneVars, agentVars, codecVars, poolVars,
          extraVars>>

NoRet == [op |-> "none", sid |-> 0, res |-> "none"]

Ret(op, sid, res) == [op |-> op, sid |-> sid, res |-> res]

Frame(stream_id, sequence, end_stream, size) ==
    [stream_id |-> stream_id, sequence |-> sequence,
     end_stream |-> end_stream, size |-> size]

----------------------------------------------------------------------------
(* Client router: Router, ConnectionHandler, ConnectedSession *)

Calls == 1..MaxCalls
ReqIds == 1..MaxIds

NoResponse == [request_id |-> 0, body |-> "none"]

\* a Response as the remote end sends it
RemoteResponse(id, body) == [request_id |-> id, body |-> body]

RemoteBodies == {"Result", "Error"}

\* Response::error(request_id, ErrorDetails::new(InternalError, "Router shutdown"))
ShutdownResponse(id) ==
    [request_id |-> id, body |-> "Error(InternalError, Router shutdown)"]

EmptySlot == [state |-> "empty", value |-> NoResponse]
ClosedSlot == [state |-> "closed", value |-> NoResponse]
FullSlot(resp) == [state |-> "value", value |-> resp]

NoResult == [kind |-> "none", value |-> NoResponse]
OkResult(resp) == [kind |-> "Ok", value |-> resp]
ErrResult(e) == [kind |-> e, value |-> NoResponse]

\* the handler's shutdown channel still has its sender (_shutdown_tx), and the
\* channel behind Router.shutdown_tx still has its receiver
\* (_router_shutdown_rx): both are locals of Router::new, dropped on return
handler_shutdown_tx_alive == ~constructed
router_shutdown_rx_alive == ~constructed

InitRouter ==
    /\ constructed = FALSE
    /\ pending = << >>
    /\ msg_chan = << >>
    /\ call_pc = [c \in Calls |-> "idle"]
    /\ call_id = [c \in Calls |-> 0]
    /\ slot = [c \in Calls |-> EmptySlot]
    /\ result = [c \in Calls |-> NoResult]
    /\ h_pc = "running"
    /\ h_reason = "none"
    /\ conn_next_stream_id = 1
    /\ wire = << >>
    /\ status = "Bootstrapping"
    /\ disc_pc = "idle"
    /\ disc_result = "none"
    /\ pending_at_stop = {}
    /\ outstanding_at_shutdown = {}

\* the calls whose entry the pending map holds and that have not returned
PendingCalls == {pending[id] : id \in {i \in DOMAIN pending :
                                          call_pc[pending[i]] # "done"}}

----------------------------------------------------------------------------
(* Initial states of the other components *)

\* no clone of the multiplexer exists yet
InitClone ==
    /\ cloned = FALSE
    /\ clone_next_stream_id = 0

\* AgentLoop::with_io: no handler registered, nothing read or written
AgentLoop_with_io ==
    /\ agent_pc = "setup"
    /\ agent_handlers = {}
    /\ stdin = << >>
    /\ stdin_closed = FALSE
    /\ agent_buf = << >>
    /\ agent_out = << >>
    /\ stdin_items = 0
    /\ agent_shutdown = "unsent"
    /\ agent_seen = << >>
    /\ agent_errors = {}

NoEncode == [result |-> "none", size |-> 0, max |-> 0]

NoDecode == [result |-> "none", buffered |-> 0, consumed |-> 0]

\* FrameCodec::new, and an empty byte stream
FrameCodec_new ==
    /\ encoded = << >>
    /\ byte_stream = << >>
    /\ read_buf = << >>
    /\ decoded = << >>
    /\ last_decode = NoDecode
    /\ last_encode = NoEncode

Clients == 1..MaxClients

Hosts == {"h1", "h2"}

NoConnection == [conn |-> 0, host |-> "none", connected |-> FALSE]

NoHandOut == [conn |-> 0, host |-> "none", entries |-> << >>]

\* ConnectionPool::new
ConnectionPool_new ==
    /\ pool_started = FALSE
    /\ ssh_configs = {}
    /\ connections = [h \in Hosts |-> << >>]
    /\ created = << >>
    /\ borrowed = [c \in Clients |-> NoConnection]
    /\ acquiring = [c \in Clients |-> "none"]
    /\ returning = {}
    /\ handed_out = NoHandOut
    /\ overlapped = FALSE
    /\ disturbed = FALSE
    /\ discarded = {}

NoSession == [bootstrap_agent |-> FALSE, binary_path |-> FALSE]

NoAgent == [proc |-> 0, state |-> "none"]

\* before Session::new
InitSession ==
    /\ sess_pc = "none"
    /\ sess_config = NoSession
    /\ sess_status = "none"
    /\ sess_steps = << >>
    /\ sess_result = "none"
    /\ ssh_procs = << >>
    /\ transport = [ssh_process |-> 0, connected |-> FALSE]
    /\ sess_connection = 0
    /\ sess_router = 0
    /\ remote_agent = NoAgent
    /\ boot_pc = "none"

NoHost == [os |-> "none", memfd |-> FALSE, python |-> FALSE,
           devshm |-> FALSE, tmp |-> FALSE]

NoPlatform == [detected |-> FALSE, bootstrap_methods |-> << >>]

\* before Bootstrap::new
InitBootstrap ==
    /\ bs_pc = "none"
    /\ bs_host = NoHost
    /\ bs_custom = FALSE
    /\ bs_methods = << >>
    /\ bs_platform = NoPlatform
    /\ bs_script = "none"

NoExec == [command |-> 0, timeout |-> FALSE, stdin |-> FALSE]

NoChild == [state |-> "none", code |-> 0]

\* an agent with a ProcessHandler and no request yet
InitExec ==
    /\ px_pc = "idle"
    /\ px_request = NoExec
    /\ px_child = NoChild
    /\ px_cause = "none"
    /\ px_answers = << >>

NoBytes == [len |-> 0, head |-> << >>, parses |-> FALSE, imports |-> {},
            exports_start |-> FALSE]

\* before any module is loaded
InitWasm ==
    /\ wasm_pc = "none"
    /\ wasm_bytes = NoBytes
    /\ wasm_result = "none"

\* ConnectionPool::new: no host has entries, nothing is held
InitHealth ==
    /\ hc_now = 0
    /\ hc_connections = << >>
    /\ hc_held = 0
    /\ hc_checked = FALSE
    /\ hc_reaped = 0

\* ConnectionHandler::new: next_stream_id is 1, nothing sent
ConnectionHandler_new ==
    /\ sm_next_stream_id = 1
    /\ sm_handled = 0
    /\ sm_frames = << >>

\* create_stream: the counters of the stream and of its handle are 0
InitSeq ==
    /\ sq_handle_next = 0
    /\ sq_info_next = 0
    /\ sq_sent = << >>
    /\ sq_accepted = << >>
    /\ sq_panicked = FALSE
    /\ sq_ret = "none"

\* WasmHandler::new: the cache is empty, nothing was handled
WasmHandler_new ==
    /\ wh_module_cache = << >>
    /\ wh_parsed = << >>
    /\ wh_compiled = << >>
    /\ wh_executed = << >>
    /\ wh_response = "none"

\* before a call of connect_with_retries
InitRetry ==
    /\ rt_pc = "idle"
    /\ rt_max = 0
    /\ rt_attempt = 0
    /\ rt_last_error = "None"
    /\ rt_log = << >>
    /\ rt_result = "none"

\* AgentRouter::new
AgentRouter_new ==
    /\ ar_routed = 0
    /\ ar_queue = << >>
    /\ ar_writers = << >>
    /\ ar_lock = 0
    /\ ar_out = << >>
    /\ ar_started = << >>
    /\ ar_contended = FALSE

InitOthers ==
    /\ InitClone
    /\ AgentLoop_with_io
    /\ FrameCodec_new
    /\ ConnectionPool_new
    /\ InitSession
    /\ InitBootstrap
    /\ InitExec
    /\ InitWasm
    /\ AgentRouter_new
    /\ InitRetry
    /\ InitHealth
    /\ ConnectionHandler_new
    /\ InitSeq
    /\ WasmHandler_new

----------------------------------------------------------------------------
(* FlowControlState *)

FlowControlState_new(initial_window_size) ==
    [send_window |-> initial_window_size,
     recv_window |-> initial_window_size,
     initial_window_size |-> initial_window_size,
     bytes_in_flight |-> 0,
     bytes_buffered |-> 0]

\* a check of the send window alone
can_send_WindowOnly(fc, size) == fc.send_window >= size

\* a check of the bytes in flight alone
can_send_InFlightOnly(fc, size) ==
    (fc.bytes_in_flight + size) % U32 <= fc.initial_window_size

can_send(fc, size) ==
    /\ fc.send_window >= size
    /\ (fc.bytes_in_flight + size) % U32 <= fc.initial_window_size

\* the result is <ok, new state>; on FlowControlViolation the state is kept
consume_send_credits(fc, size) ==
    IF ~can_send(fc, size)
    THEN [ok |-> FALSE, fc |-> fc]
    ELSE [ok |-> TRUE,
          fc |-> [fc EXCEPT !.send_window = fc.send_window - size,
                            !.bytes_in_flight = fc.bytes_in_flight + size]]

saturating_sub(a, b) == IF a >= b THEN a - b ELSE 0

\* send_window += delta overflows u32 when the sum reaches 2^32: a release
\* build wraps, a build with overflow checks panics before anything is stored
update_send_window_outcomes(fc, delta) ==
    IF fc.send_window + delta < U32
    THEN {[fc EXCEPT !.send_window = fc.send_window + delta,
                     !.bytes_in_flight = saturating_sub(fc.bytes_in_flight, delta)]}
    ELSE {[fc EXCEPT !.send_window = (fc.send_window + delta) % U32,
                     !.bytes_in_flight = saturating_sub(fc.bytes_in_flight, delta)],
          fc}

consume_recv_credits(fc, size) ==
    IF fc.recv_window < size
    THEN [ok |-> FALSE, fc |-> fc]
    ELSE [ok |-> TRUE,
          fc |-> [fc EXCEPT !.recv_window = fc.recv_window - size,
                            !.bytes_buffered = fc.bytes_buffered + size]]

\* recv_window += size overflows u32 in the same two ways
add_recv_credits_outcomes(fc, size) ==
    IF fc.recv_window + size < U32
    THEN {[fc EXCEPT !.recv_window = fc.recv_window + size,
                     !.bytes_buffered = saturating_sub(fc.bytes_buffered, size)]}
    ELSE {[fc EXCEPT !.recv_window = (fc.recv_window + size) % U32,
                     !.bytes_buffered = saturating_sub(fc.bytes_buffered, size)],
          fc}

----------------------------------------------------------------------------
(* StreamMultiplexer *)

StreamInfo(frame_sender) ==
    [state |-> "Open",
     frame_sender |-> frame_sender,
     next_sequence |-> 0,
     flow_control |-> FlowControlState_new(InitialWindowSize)]

StreamHandle(stream_id) ==
    [stream_id |-> stream_id,
     next_sequence |-> 0,
     state |-> "Open",
     dropped |-> FALSE,
     pc |-> "idle",
     sending |-> Frame(0, 0, FALSE, 0)]

HandleIds == 1..Len(handles)

\* the handle's frame_receiver still exists
ReceiverAlive(h) == ~handles[h].dropped

RemoveKey(f, k) == [x \in (DOMAIN f) \ {k} |-> f[x]]

PutKey(f, k, v) == [x \in (DOMAIN f) \cup {k} |-> IF x = k THEN v ELSE f[x]]

\* a multiplexer as with_config builds it, next to a router whose handler task
\* has just been spawned
InitMux ==
    /\ next_stream_id = 1
    /\ streams = << >>
    /\ frame_queue = << >>
    /\ pf_running = FALSE
    /\ handles = << >>
    /\ rx = << >>
    /\ delivered = << >>
    /\ mismatched = {}
    /\ routed_past = FALSE
    /\ ret = NoRet
    /\ InitRouter
    /\ InitOthers

create_stream ==
    /\ next_stream_id' = (next_stream_id + 1) % U32
    /\ streams' = PutKey(streams, next_stream_id, StreamInfo(Len(handles) + 1))
    /\ handles' = Append(handles, StreamHandle(next_stream_id))
    /\ rx' = Append(rx, << >>)
    /\ delivered' = Append(delivered, << >>)
    /\ ret' = NoRet
    /\ UNCHANGED nonMuxVars
    /\ UNCHANGED <<frame_queue, pf_running, mismatched, routed_past>>

\* a sequence check that lets a frame skip ahead
SequenceMatches_AtLeast(info, frame) == frame.sequence >= info.next_sequence

\* the sequence check of route_frame
SequenceMatches(info, frame) == frame.sequence = info.next_sequence

\* what route_frame returns for the frame in the current stream table
route_result(frame) ==
    IF frame.stream_id \in DOMAIN streams
    THEN IF SequenceMatches(streams[frame.stream_id], frame)
         THEN "Ok" ELSE "InvalidFrame"
    ELSE "InvalidStreamId"

\* a route_frame that keeps a stream whose receiver is gone
route_accepted_KeepsStream(frame) ==
    LET sid == frame.stream_id IN
    [streams EXCEPT
        ![sid].next_sequence = (streams[sid].next_sequence + 1) % U32,
        ![sid].state = IF frame.end_stream THEN "Closed"
                       ELSE streams[sid].state]

\* the stream table after route_frame has accepted the frame
route_accepted(frame) ==
    LET sid == frame.stream_id IN
    IF ~ReceiverAlive(streams[sid].frame_sender)
    THEN RemoveKey(streams, sid)
    ELSE [streams EXCEPT
            ![sid].next_sequence = (streams[sid].next_sequence + 1) % U32,
            ![sid].state = IF frame.end_stream THEN "Closed"
                           ELSE streams[sid].state]

\* a route_frame that answers a sequence mismatch by dropping every stream
route_streams_TearDownAll(frame) ==
    IF route_result(frame) = "InvalidFrame" THEN << >>
    ELSE IF route_result(frame) # "Ok" THEN streams
    ELSE route_accepted(frame)

\* the stream table after route_frame(frame)
route_streams(frame) ==
    IF route_result(frame) # "Ok" THEN streams ELSE route_accepted(frame)

\* route_frame delivers the frame to the stream's receiver, when it is there
route_delivers(frame) ==
    /\ route_result(frame) = "Ok"
    /\ ReceiverAlive(streams[frame.stream_id].frame_sender)

\* the effect of route_frame(frame), called directly or by process_frames
RouteEffect(frame) ==
    /\ streams' = route_streams(frame)
    /\ IF route_delivers(frame)
       THEN LET h == streams[frame.stream_id].frame_sender IN
            /\ rx' = [rx EXCEPT ![h] = Append(@, frame)]
            /\ delivered' = [delivered EXCEPT ![h] = Append(@, frame.sequence)]
       ELSE UNCHANGED <<rx, delivered>>
    /\ mismatched' = IF route_result(frame) = "InvalidFrame"
                     THEN mismatched \cup {frame.stream_id} ELSE mismatched
    /\ routed_past' = (routed_past \/ (/\ route_delivers(frame)
                                        /\ mismatched \ {frame.stream_id} # {}))
    /\ ret' = NoRet

\* route_frame(frame) on the state of the multiplexer
route_frame_mux(frame) ==
    /\ UNCHANGED <<next_stream_id, frame_queue, pf_running, handles>>
    /\ RouteEffect(frame)

route_frame(frame) ==
    /\ route_frame_mux(frame)
    /\ UNCHANGED nonMuxVars

\* a caller starts process_frames; one call at a time holds the receiver lock
process_frames_call ==
    /\ ~pf_running
    /\ pf_running' = TRUE
    /\ ret' = NoRet
    /\ UNCHANGED nonMuxVars
    /\ UNCHANGED <<next_stream_id, streams, frame_queue, handles, rx,
                   delivered, mismatched, routed_past>>

\* one iteration of the loop of process_frames on the state of the
\* multiplexer: take a frame, route it, and return the error of route_frame
\* if there is one
process_frames_mux ==
    /\ pf_running
    /\ frame_queue # << >>
    /\ frame_queue' = Tail(frame_queue)
    /\ pf_running' = (route_result(Head(frame_queue)) = "Ok")
    /\ UNCHANGED <<next_stream_id, handles>>
    /\ RouteEffect(Head(frame_queue))

\* one iteration of the loop of process_frames
process_frames_step ==
    /\ process_frames_mux
    /\ UNCHANGED nonMuxVars

close_stream(stream_id) ==
    /\ IF stream_id \in DOMAIN streams
       THEN /\ streams' = RemoveKey(streams, stream_id)
            /\ ret' = NoRet
       ELSE /\ streams' = streams
            /\ ret' = NoRet
    /\ UNCHANGED nonMuxVars
    /\ UNCHANGED <<next_stream_id, frame_queue, pf_running, handles, rx,
                   delivered, mismatched, routed_past>>

update_window(stream_id, delta) ==
    /\ IF stream_id \in DOMAIN streams
       THEN \E fc \in update_send_window_outcomes(
                         streams[stream_id].flow_control, delta) :
              /\ fc.send_window <= MaxWindow
              /\ streams' = [streams EXCEPT ![stream_id].flow_control = fc]
              /\ ret' = NoRet
       ELSE /\ streams' = streams
            /\ ret' = NoRet
    /\ UNCHANGED nonMuxVars
    /\ UNCHANGED <<next_stream_id, frame_queue, pf_running, handles, rx,
                   delivered, mismatched, routed_past>>

process_received_data(stream_id, size) ==
    /\ IF stream_id \in DOMAIN streams
       THEN LET r == consume_recv_credits(streams[stream_id].flow_control, size)
            IN /\ streams' = [streams EXCEPT ![stream_id].flow_control = r.fc]
               /\ ret' = NoRet
       ELSE /\ streams' = streams
            /\ ret' = NoRet
    /\ UNCHANGED <<next_stream_id, frame_queue, pf_running, handles, rx,
                   delivered, mismatched, routed_past>>
    /\ UNCHANGED nonMuxVars

ack_processed_data(stream_id, size) ==
    /\ IF stream_id \in DOMAIN streams
       THEN \E fc \in add_recv_credits_outcomes(
                         streams[stream_id].flow_control, size) :
              /\ fc.recv_window <= MaxWindow
              /\ streams' = [streams EXCEPT ![stream_id].flow_control = fc]
              /\ ret' = NoRet
       ELSE /\ streams' = streams
            /\ ret' = NoRet
    /\ UNCHANGED nonMuxVars
    /\ UNCHANGED <<next_stream_id, frame_queue, pf_running, handles, rx,
                   delivered, mismatched, routed_past>>

----------------------------------------------------------------------------
(* StreamHandle *)

\* send_data up to the flow-control check and the sequence it takes; the
\* multiplexer's lock is released again before the credits are consumed
send_data_check(h, size) ==
    LET hd == handles[h]
        sid == hd.stream_id
    IN
    /\ ~hd.dropped
    /\ hd.pc = "idle"
    /\ IF hd.state = "Closed"
       THEN /\ ret' = Ret("send_data", sid, "StreamClosed")
            /\ handles' = handles
       ELSE IF sid \notin DOMAIN streams
       THEN /\ ret' = Ret("send_data", sid, "InvalidStreamId")
            /\ handles' = handles
       ELSE IF ~can_send(streams[sid].flow_control, size)
       THEN /\ ret' = Ret("send_data", sid,
                          "FlowControlViolation")
            /\ handles' = handles
       ELSE /\ hd.next_sequence < MaxSends
            /\ ret' = Ret("send_data", sid, "Pending")
            /\ handles' = [handles EXCEPT
                 ![h].next_sequence = (hd.next_sequence + 1) % U32,
                 ![h].pc = "send",
                 ![h].sending = Frame(sid, hd.next_sequence, FALSE, size)]
    /\ UNCHANGED nonMuxVars
    /\ UNCHANGED <<next_stream_id, streams, frame_queue, pf_running, rx,
                   delivered, mismatched, routed_past>>

\* the rest of send_data: consume the credits (when the stream is still in
\* the table) and hand the frame to send_frame
send_data_commit(h) ==
    LET hd == handles[h]
        sid == hd.stream_id
        r == IF sid \in DOMAIN streams
             THEN consume_send_credits(streams[sid].flow_control, hd.sending.size)
             ELSE [ok |-> TRUE, fc |-> FlowControlState_new(0)]
    IN
    /\ hd.pc = "send"
    /\ handles' = [handles EXCEPT ![h].pc = "idle"]
    /\ IF r.ok
       THEN /\ frame_queue' = Append(frame_queue, hd.sending)
            /\ streams' = IF sid \in DOMAIN streams
                          THEN [streams EXCEPT ![sid].flow_control = r.fc]
                          ELSE streams
            /\ ret' = Ret("send_data", sid, "Ok")
       ELSE /\ UNCHANGED <<frame_queue, streams>>
            /\ ret' = Ret("send_data", sid,
                          "FlowControlViolation")
    /\ UNCHANGED nonMuxVars
    /\ UNCHANGED <<next_stream_id, pf_running, rx, delivered, mismatched, routed_past>>

send_end_stream(h) ==
    LET hd == handles[h]
        sid == hd.stream_id
    IN
    /\ ~hd.dropped
    /\ hd.pc = "idle"
    /\ IF hd.state = "Closed"
       THEN /\ ret' = Ret("send_end_stream", sid,
                          "StreamClosed")
            /\ UNCHANGED <<handles, frame_queue>>
       ELSE /\ hd.next_sequence < MaxSends
            /\ handles' = [handles EXCEPT
                 ![h].next_sequence = (hd.next_sequence + 1) % U32,
                 ![h].state = "HalfClosed"]
            /\ frame_queue' = Append(frame_queue,
                                     Frame(sid, hd.next_sequence, TRUE, 0))
            /\ ret' = Ret("send_end_stream", sid, "Ok")
    /\ UNCHANGED nonMuxVars
    /\ UNCHANGED <<next_stream_id, streams, pf_running, rx, delivered,
                   mismatched, routed_past>>

recv_frame(h) ==
    /\ ~handles[h].dropped
    /\ rx[h] # << >>
    /\ rx' = [rx EXCEPT ![h] = Tail(@)]
    /\ ret' = NoRet
    /\ UNCHANGED nonMuxVars
    /\ UNCHANGED <<next_stream_id, streams, frame_queue, pf_running, handles,
                   delivered, mismatched, routed_past>>

\* close: send_end_stream, mark the handle Closed, close_stream
close(h) ==
    LET hd == handles[h]
        sid == hd.stream_id
    IN
    /\ ~hd.dropped
    /\ hd.pc = "idle"
    /\ IF hd.state = "Closed"
       THEN /\ ret' = Ret("close", sid, "Ok")
            /\ UNCHANGED <<handles, frame_queue, streams>>
       ELSE /\ hd.next_sequence < MaxSends
            /\ handles' = [handles EXCEPT
                 ![h].next_sequence = (hd.next_sequence + 1) % U32,
                 ![h].state = "Closed"]
            /\ frame_queue' = Append(frame_queue,
                                     Frame(sid, hd.next_sequence, TRUE, 0))
            /\ streams' = RemoveKey(streams, sid)
            /\ ret' = Ret("close", sid,
                          IF sid \in DOMAIN streams THEN "Ok"
                          ELSE "InvalidStreamId")
    /\ UNCHANGED nonMuxVars
    /\ UNCHANGED <<next_stream_id, pf_running, rx, delivered, mismatched, routed_past>>

\* the handle goes out of scope: its frame_receiver is dropped with it
drop_handle(h) ==
    /\ ~handles[h].dropped
    /\ handles[h].pc = "idle"
    /\ handles' = [handles EXCEPT ![h].dropped = TRUE]
    /\ rx' = [rx EXCEPT ![h] = << >>]
    /\ ret' = NoRet
    /\ UNCHANGED nonMuxVars
    /\ UNCHANGED <<next_stream_id, streams, frame_queue, pf_running,
                   delivered, mismatched, routed_past>>

----------------------------------------------------------------------------
(* The multiplexer and its users *)

OfferedFrames ==
    {Frame(sid, seq, es, 0) : sid \in StreamIds, seq \in 0..MaxSeq,
                               es \in BOOLEAN}

\* send_frame: the public entry to the multiplexer's frame channel, which the
\* handles use too
send_frame(frame) ==
    /\ frame_queue' = Append(frame_queue, frame)
    /\ ret' = NoRet
    /\ UNCHANGED nonMuxVars
    /\ UNCHANGED <<next_stream_id, streams, pf_running, handles, rx,
                   delivered, mismatched, routed_past>>

\* The multiplexer under its public operations, with two streams and their
\* receivers.  The flow-control calls offered here are those that exceed the
\* window; SpecFlow covers the windows.
NextMux ==
    \/ (next_stream_id <= MaxStreams /\ create_stream)
    \/ \E f \in OfferedFrames : route_frame(f)
    \/ \E f \in OfferedFrames : Len(frame_queue) < MaxQueue /\ send_frame(f)
    \/ process_frames_call
    \/ process_frames_step
    \/ \E sid \in StreamIds : close_stream(sid)
    \/ \E sid \in StreamIds : process_received_data(sid, InitialWindowSize + 1)
    \/ \E h \in HandleIds : recv_frame(h)
    \/ \E h \in HandleIds : drop_handle(h)

SpecMux == InitMux /\ [][NextMux]_vars

\* The multiplexer when nobody closes a stream: a stream leaves the table
\* only through route_frame.
NextEvict ==
    \/ (next_stream_id <= MaxStreams /\ create_stream)
    \/ \E f \in OfferedFrames : route_frame(f)
    \/ \E f \in OfferedFrames : Len(frame_queue) < MaxQueue /\ send_frame(f)
    \/ process_frames_call
    \/ process_frames_step
    \/ \E h \in HandleIds : recv_frame(h)
    \/ \E h \in HandleIds : drop_handle(h)

SpecEvict == InitMux /\ [][NextEvict]_vars

\* One stream and its handle: the state after with_config and create_stream.
InitFlow ==
    /\ next_stream_id = 2
    /\ streams = [sid \in {1} |-> StreamInfo(1)]
    /\ frame_queue = << >>
    /\ pf_running = FALSE
    /\ handles = <<StreamHandle(1)>>
    /\ rx = << << >> >>
    /\ delivered = << << >> >>
    /\ mismatched = {}
    /\ routed_past = FALSE
    /\ ret = NoRet
    /\ InitRouter
    /\ InitOthers

\* A handle sending on its stream while process_frames runs on the same
\* multiplexer; nothing arrives from a peer (route_frame is not called from
\* outside), so every frame in the frame channel was sent by the handle.
NextLoop ==
    \/ \E h \in HandleIds, n \in PayloadSizes : send_data_check(h, n)
    \/ \E h \in HandleIds : send_data_commit(h)
    \/ \E h \in HandleIds : send_end_stream(h)
    \/ process_frames_call
    \/ process_frames_step
    \/ \E h \in HandleIds : recv_frame(h)
    \/ \E sid \in StreamIds, d \in Deltas : update_window(sid, d)

SpecLoop == InitFlow /\ [][NextLoop]_vars

\* The handle's send path and the flow-control calls of the multiplexer on
\* that stream.  The frames sent stay in the frame channel.
NextFlow ==
    \/ \E h \in HandleIds, n \in PayloadSizes : send_data_check(h, n)
    \/ \E h \in HandleIds : send_data_commit(h)
    \/ \E h \in HandleIds : send_end_stream(h)
    \/ \E h \in HandleIds : close(h)
    \/ \E sid \in StreamIds : close_stream(sid)
    \/ \E sid \in StreamIds, d \in Deltas : update_window(sid, d)
    \/ \E sid \in StreamIds, n \in PayloadSizes : process_received_data(sid, n)
    \/ \E sid \in StreamIds, d \in Deltas : ack_processed_data(sid, d)

SpecFlow == InitFlow /\ [][NextFlow]_vars

\* One stream and its handle, with frames of the peer routed to it: the
\* handle's sends and closes next to the END_STREAM of the other side.
NextClose ==
    \/ \E f \in OfferedFrames : route_frame(f)
    \/ \E h \in HandleIds, n \in PayloadSizes : send_data_check(h, n)
    \/ \E h \in HandleIds : send_data_commit(h)
    \/ \E h \in HandleIds : send_end_stream(h)
    \/ \E h \in HandleIds : close(h)
    \/ \E h \in HandleIds : recv_frame(h)

SpecClose == InitFlow /\ [][NextClose]_vars

\* impl Clone for StreamMultiplexer: the clone shares the stream table and
\* the frame channel, and starts a counter of its own at the current value
clone_multiplexer ==
    /\ ~cloned
    /\ cloned' = TRUE
    /\ clone_next_stream_id' = next_stream_id
    /\ ret' = NoRet
    /\ UNCHANGED <<routerVars, agentVars, codecVars, poolVars, extraVars>>
    /\ UNCHANGED <<next_stream_id, streams, frame_queue, pf_running, handles,
                   rx, delivered, mismatched, routed_past>>

\* create_stream called on the clone
clone_create_stream ==
    /\ cloned
    /\ clone_next_stream_id' = (clone_next_stream_id + 1) % U32
    /\ streams' = PutKey(streams, clone_next_stream_id,
                         StreamInfo(Len(handles) + 1))
    /\ handles' = Append(handles, StreamHandle(clone_next_stream_id))
    /\ rx' = Append(rx, << >>)
    /\ delivered' = Append(delivered, << >>)
    /\ ret' = NoRet
    /\ UNCHANGED cloned
    /\ UNCHANGED <<routerVars, agentVars, codecVars, poolVars, extraVars>>
    /\ UNCHANGED <<next_stream_id, frame_queue, pf_running, mismatched,
                   routed_past>>

\* A multiplexer and one clone of it, both creating streams, whose handles
\* send END_STREAM and close.
NextClone ==
    \/ (next_stream_id <= MaxStreams /\ create_stream)
    \/ clone_multiplexer
    \/ (clone_next_stream_id <= MaxStreams /\ clone_create_stream)
    \/ \E h \in HandleIds : send_end_stream(h)
    \/ \E h \in HandleIds : close(h)
    \/ \E sid \in StreamIds : close_stream(sid)

SpecClone == InitMux /\ [][NextClone]_vars

----------------------------------------------------------------------------
(* Router, ConnectionHandler and ConnectedSession: the actions *)

\* Router::new returns: its locals _shutdown_tx and _router_shutdown_rx are
\* dropped, and Session::connect marks the session Active and builds the
\* ConnectedSession
router_new_return ==
    /\ ~constructed
    /\ constructed' = TRUE
    /\ status' = "Active"
    /\ UNCHANGED <<pending, msg_chan, call_pc, call_id, slot, result, h_pc,
                   h_reason, conn_next_stream_id, wire, disc_pc, disc_result,
                   pending_at_stop, outstanding_at_shutdown>>
    /\ UNCHANGED nonRouterVars

\* the oneshot channels after the pending map dropped the sender it held for
\* request_id (HashMap::insert returns the old sender, which is dropped)
slot_after_insert(c, request_id) ==
    [x \in Calls |->
        IF x = c THEN EmptySlot
        ELSE IF /\ request_id \in DOMAIN pending
                /\ pending[request_id] = x
                /\ slot[x].state = "empty"
             THEN ClosedSlot
             ELSE slot[x]]

\* Router::send_message up to the registration of the pending request
send_message_register(c, request_id) ==
    /\ constructed
    /\ call_pc[c] = "idle"
    /\ call_id' = [call_id EXCEPT ![c] = request_id]
    /\ slot' = slot_after_insert(c, request_id)
    /\ pending' = PutKey(pending, request_id, c)
    /\ call_pc' = [call_pc EXCEPT ![c] = "registered"]
    /\ UNCHANGED <<constructed, msg_chan, result, h_pc, h_reason,
                   conn_next_stream_id, wire, status, disc_pc, disc_result,
                   pending_at_stop, outstanding_at_shutdown>>
    /\ UNCHANGED nonRouterVars

\* Router::send_message: message_tx.send(message).await
send_message_send(c) ==
    /\ call_pc[c] = "registered"
    /\ IF h_pc = "stopped"
       THEN \* the receiver went with the handler task
            /\ result' = [result EXCEPT
                   ![c] = ErrResult("Protocol(Failed to send message)")]
            /\ call_pc' = [call_pc EXCEPT ![c] = "done"]
            /\ UNCHANGED msg_chan
       ELSE /\ Len(msg_chan) < MaxStreamsCap
            /\ msg_chan' = Append(msg_chan, call_id[c])
            /\ call_pc' = [call_pc EXCEPT ![c] = "waiting"]
            /\ UNCHANGED result
    /\ UNCHANGED <<constructed, pending, call_id, slot, h_pc, h_reason,
                   conn_next_stream_id, wire, status, disc_pc, disc_result,
                   pending_at_stop, outstanding_at_shutdown>>
    /\ UNCHANGED nonRouterVars

\* Router::send_message: timeout(request_timeout, response_rx).await yields
\* the response, or the sender was dropped
send_message_receive(c) ==
    /\ call_pc[c] = "waiting"
    /\ slot[c].state # "empty"
    /\ result' = [result EXCEPT ![c] =
           IF slot[c].state = "value"
           THEN OkResult(slot[c].value)
           ELSE ErrResult("Protocol(Response channel closed)")]
    /\ call_pc' = [call_pc EXCEPT ![c] = "done"]
    /\ UNCHANGED <<constructed, pending, msg_chan, call_id, slot, h_pc,
                   h_reason, conn_next_stream_id, wire, status, disc_pc,
                   disc_result, pending_at_stop, outstanding_at_shutdown>>
    /\ UNCHANGED nonRouterVars

\* Router::send_message: the timeout elapses first
send_message_timeout(c) ==
    /\ call_pc[c] = "waiting"
    /\ slot[c].state = "empty"
    /\ result' = [result EXCEPT ![c] = ErrResult("Timeout")]
    /\ call_pc' = [call_pc EXCEPT ![c] = "done"]
    /\ UNCHANGED <<constructed, pending, msg_chan, call_id, slot, h_pc,
                   h_reason, conn_next_stream_id, wire, status, disc_pc,
                   disc_result, pending_at_stop, outstanding_at_shutdown>>
    /\ UNCHANGED nonRouterVars

\* ConnectionHandler::run, first branch with Some(msg), and
\* ConnectionHandler::send_message; the write to stdin succeeds or fails
handler_send_message(written) ==
    /\ h_pc = "running"
    /\ msg_chan # << >>
    /\ msg_chan' = Tail(msg_chan)
    /\ conn_next_stream_id' = (conn_next_stream_id + 1) % U32
    /\ wire' = IF written
               THEN Append(wire, [stream_id |-> conn_next_stream_id,
                                  sequence |-> 0,
                                  request_id |-> Head(msg_chan)])
               ELSE wire
    /\ UNCHANGED <<constructed, pending, call_pc, call_id, slot, result, h_pc,
                   h_reason, status, disc_pc, disc_result, pending_at_stop,
                   outstanding_at_shutdown>>
    /\ UNCHANGED nonRouterVars

\* the entry of the pending map a response is matched with
response_entry_Oldest(response) ==
    IF DOMAIN pending # {}
    THEN {CHOOSE id \in DOMAIN pending : \A j \in DOMAIN pending : id <= j}
    ELSE {}

response_entry(response) == {response.request_id} \cap DOMAIN pending

\* a handle_response that looks the sender up without removing it
handle_response_KeepsEntry(response) ==
    /\ pending' = pending
    /\ slot' = [c \in Calls |->
                   IF /\ \E id \in response_entry(response) : pending[id] = c
                      /\ call_pc[c] # "done"
                      /\ slot[c].state = "empty"
                   THEN FullSlot(response)
                   ELSE slot[c]]

\* ConnectionHandler::handle_response
handle_response(response) ==
    /\ pending' = [id \in (DOMAIN pending) \ response_entry(response) |->
                      pending[id]]
    /\ slot' = [c \in Calls |->
                   IF /\ \E id \in response_entry(response) : pending[id] = c
                      /\ call_pc[c] # "done"
                      /\ slot[c].state = "empty"
                   THEN FullSlot(response)
                   ELSE slot[c]]

\* ConnectionHandler::run, second branch with Ok(Some(frame)), and
\* ConnectionHandler::handle_incoming_frame for a frame that holds a Response
handler_incoming_response(response) ==
    /\ h_pc = "running"
    /\ handle_response(response)
    /\ UNCHANGED <<constructed, msg_chan, call_pc, call_id, result, h_pc,
                   h_reason, conn_next_stream_id, wire, status, disc_pc,
                   disc_result, pending_at_stop, outstanding_at_shutdown>>
    /\ UNCHANGED nonRouterVars

\* handle_incoming_frame for a frame that holds a Request or does not
\* deserialize: logged, nothing changes
handler_incoming_ignored ==
    /\ h_pc = "running"
    /\ UNCHANGED routerVars
    /\ UNCHANGED nonRouterVars

\* ConnectionHandler::run leaves its loop; the task ends and the receivers it
\* owns (message_rx with the messages queued in it) are dropped
handler_stop(reason) ==
    /\ h_pc = "running"
    /\ reason = "shutdown" => ~handler_shutdown_tx_alive
    /\ h_pc' = "stopped"
    /\ h_reason' = reason
    /\ msg_chan' = << >>
    /\ pending_at_stop' = IF reason \in {"transport_closed", "read_error"}
                          THEN PendingCalls
                          ELSE pending_at_stop
    /\ UNCHANGED <<constructed, pending, call_pc, call_id, slot, result,
                   conn_next_stream_id, wire, status, disc_pc, disc_result,
                   outstanding_at_shutdown>>
    /\ UNCHANGED nonRouterVars

StopReasons == {"shutdown", "transport_closed", "read_error"}

\* ConnectedSession::disconnect up to the update of the session status
disconnect_mark ==
    /\ constructed
    /\ disc_pc = "idle"
    /\ status' = "Disconnected"
    /\ disc_pc' = "marked"
    /\ UNCHANGED <<constructed, pending, msg_chan, call_pc, call_id, slot,
                   result, h_pc, h_reason, conn_next_stream_id, wire,
                   disc_result, pending_at_stop, outstanding_at_shutdown>>
    /\ UNCHANGED nonRouterVars

\* Router::shutdown: the result, the pending map and the oneshot channels
\* it leaves
shutdown_result ==
    IF router_shutdown_rx_alive
    THEN "Ok"
    ELSE "Err(Protocol(Failed to send shutdown signal))"

shutdown_pending == IF router_shutdown_rx_alive THEN << >> ELSE pending

shutdown_slot ==
    IF router_shutdown_rx_alive
    THEN [c \in Calls |->
             IF /\ \E id \in DOMAIN pending : pending[id] = c
                /\ call_pc[c] # "done"
                /\ slot[c].state = "empty"
             THEN FullSlot(ShutdownResponse(call_id[c]))
             ELSE slot[c]]
    ELSE slot

\* ConnectedSession::disconnect from the shutdown signal on: the signal, then
\* Router::shutdown, whose error disconnect returns
disconnect_shutdown ==
    /\ disc_pc = "marked"
    /\ outstanding_at_shutdown' = PendingCalls
    /\ pending' = shutdown_pending
    /\ slot' = shutdown_slot
    /\ disc_result' = shutdown_result
    /\ disc_pc' = "done"
    /\ UNCHANGED <<constructed, msg_chan, call_pc, call_id, result, h_pc,
                   h_reason, conn_next_stream_id, wire, status,
                   pending_at_stop>>
    /\ UNCHANGED nonRouterVars

NextRouter ==
    \/ router_new_return
    \/ \E c \in Calls, request_id \in ReqIds :
           send_message_register(c, request_id)
    \/ \E c \in Calls : send_message_send(c)
    \/ \E c \in Calls : send_message_receive(c)
    \/ \E c \in Calls : send_message_timeout(c)
    \/ \E written \in BOOLEAN : handler_send_message(written)
    \/ \E id \in ReqIds, body \in RemoteBodies :
           handler_incoming_response(RemoteResponse(id, body))
    \/ handler_incoming_ignored
    \/ \E reason \in StopReasons : handler_stop(reason)
    \/ disconnect_mark
    \/ disconnect_shutdown

SpecRouter == InitMux /\ [][NextRouter]_vars

----------------------------------------------------------------------------
(* Frame and FrameCodec: the bytes of a frame *)

\* a frame as the codec carries it: flags is the FrameFlags byte, payload a
\* sequence of bytes
WireFrame(stream_id, sequence, flags, payload) ==
    [stream_id |-> stream_id, sequence |-> sequence, flags |-> flags,
     payload |-> payload]

NoFrame == WireFrame(0, 0, 0, << >>)

NONE == 0
END_STREAM == 1
ERROR == 2

\* FrameFlags::has_flag for a flags byte made of NONE, END_STREAM and ERROR
has_flag(flags, flag) == (flags \div flag) % 2 = 1

is_end_stream(frame) == has_flag(frame.flags, END_STREAM)

is_error(frame) == has_flag(frame.flags, ERROR)

\* BufMut::put_u32 and Buf::get_u32: four bytes, big-endian
put_u32(n) ==
    <<n \div 16777216, (n \div 65536) % 256, (n \div 256) % 256, n % 256>>

\* (a value of 2^31 or more is read as 2^31 - 1: it is only ever compared
\* with numbers far below it)
get_u32(b) ==
    IF b[1] > 127 THEN 2147483647
    ELSE ((b[1] * 256 + b[2]) * 256 + b[3]) * 256 + b[4]

\* MessagePack markers that rmp_serde writes for a Frame
FixArray4 == 148
Bin8 == 196
Uint8 == 204
Uint16 == 205
Uint32 == 206

\* an unsigned integer in its shortest MessagePack form
write_uint(v) ==
    IF v < 128 THEN <<v>>
    ELSE IF v < 256 THEN <<Uint8, v>>
    ELSE IF v < 65536 THEN <<Uint16, v \div 256, v % 256>>
    ELSE <<Uint32>> \o put_u32(v)

NoUint == [ok |-> FALSE, value |-> 0, next |-> 0]

\* an unsigned integer read at position i of b
read_uint(b, i) ==
    IF i < 1 \/ i > Len(b) THEN NoUint
    ELSE IF b[i] < 128 THEN [ok |-> TRUE, value |-> b[i], next |-> i + 1]
    ELSE IF b[i] = Uint8 /\ i + 1 <= Len(b)
         THEN [ok |-> TRUE, value |-> b[i + 1], next |-> i + 2]
    ELSE IF b[i] = Uint16 /\ i + 2 <= Len(b)
         THEN [ok |-> TRUE, value |-> b[i + 1] * 256 + b[i + 2],
               next |-> i + 3]
    ELSE IF b[i] = Uint32 /\ i + 4 <= Len(b)
         THEN [ok |-> TRUE, value |-> get_u32(SubSeq(b, i + 1, i + 4)),
               next |-> i + 5]
    ELSE NoUint

\* Frame::to_msgpack: the struct as an array of its four fields
to_msgpack(frame) ==
    <<FixArray4>> \o write_uint(frame.stream_id) \o write_uint(frame.sequence)
        \o write_uint(frame.flags) \o <<Bin8, Len(frame.payload)>>
        \o frame.payload

\* Frame::from_msgpack
from_msgpack(b) ==
    LET r1 == read_uint(b, 2)
        r2 == read_uint(b, r1.next)
        r3 == read_uint(b, r2.next)
        p == r3.next
    IN IF /\ Len(b) >= 1
          /\ b[1] = FixArray4
          /\ r1.ok
          /\ r2.ok
          /\ r3.ok
          /\ r3.value < 256
          /\ p + 1 <= Len(b)
          /\ b[p] = Bin8
          /\ p + 1 + b[p + 1] <= Len(b)
       THEN [ok |-> TRUE,
             frame |-> WireFrame(r1.value, r2.value, r3.value,
                                 SubSeq(b, p + 2, p + 1 + b[p + 1]))]
       ELSE [ok |-> FALSE, frame |-> NoFrame]

\* an encode_frame that refuses a body of exactly the maximum size
encode_frame_AtLimit(frame, max_frame_size) ==
    LET frame_bytes == to_msgpack(frame) IN
    IF Len(frame_bytes) >= max_frame_size
    THEN [ok |-> FALSE, bytes |-> << >>]
    ELSE [ok |-> TRUE, bytes |-> put_u32(Len(frame_bytes)) \o frame_bytes]

\* FrameCodec::encode_frame
encode_frame(frame, max_frame_size) ==
    LET frame_bytes == to_msgpack(frame) IN
    IF Len(frame_bytes) > max_frame_size
    THEN [ok |-> FALSE, bytes |-> << >>]
    ELSE [ok |-> TRUE, bytes |-> put_u32(Len(frame_bytes)) \o frame_bytes]

\* a try_decode_frame that takes the body and leaves four bytes behind
after_frame_KeepsPrefix(buf, frame_len) ==
    SubSeq(buf, 1, 4) \o SubSeq(buf, 5 + frame_len, Len(buf))

\* read_buf after advance(4) and split_to(frame_len)
after_frame(buf, frame_len) == SubSeq(buf, 5 + frame_len, Len(buf))

\* FrameCodec::try_decode_frame: its result and the read_buf it leaves
try_decode_frame(buf, max_frame_size) ==
    IF Len(buf) < 4
    THEN [result |-> "None", frame |-> NoFrame, buf |-> buf]
    ELSE LET frame_len == get_u32(buf) IN
         IF frame_len > max_frame_size
         THEN [result |-> "FrameTooLarge", frame |-> NoFrame, buf |-> buf]
         ELSE IF Len(buf) < 4 + frame_len
         THEN [result |-> "None", frame |-> NoFrame, buf |-> buf]
         ELSE LET d == from_msgpack(SubSeq(buf, 5, 4 + frame_len)) IN
              [result |-> IF d.ok THEN "Frame" ELSE "Serialization",
               frame |-> d.frame,
               buf |-> after_frame(buf, frame_len)]

----------------------------------------------------------------------------
(* Message: the bytes of a frame's payload *)

\* variant indices of Message, Request, Response and ErrorCode
MessageRequest == 0
MessageResponse == 1
FileGet == 1
JsonCall == 5
FileContent == 1
ResponseError == 8
InvalidRequest == 0
FileNotFound == 1
InternalError == 6
Unsupported == 7

RequestKinds == {FileGet, JsonCall}
ResponseVariants == {FileContent, ResponseError}
RequestIds == 1..MaxIds

NoMessage ==
    [ok |-> FALSE, kind |-> "none", variant |-> 0, request_id |-> 0,
     code |-> 0, data |-> << >>]

\* rmp_serde::to_vec(&Message::Request(request))
Request_bytes(variant, id) == <<MessageRequest, variant, id>>

\* Response::error(request_id, ErrorDetails::new(code, ..))
Response_error(id, code) ==
    [variant |-> ResponseError, request_id |-> id, code |-> code,
     data |-> << >>]

\* Response::FileContent { request_id, content, .. }
Response_content(id, content) ==
    [variant |-> FileContent, request_id |-> id, code |-> 0,
     data |-> content]

\* rmp_serde::to_vec(&Message::response(response))
Response_bytes(response) ==
    <<MessageResponse, response.variant, response.request_id>>
        \o (IF response.variant = ResponseError
            THEN <<response.code>> ELSE response.data)

\* rmp_serde::from_slice::<Message>
from_slice_Message(b) ==
    IF Len(b) = 3 /\ b[1] = MessageRequest /\ b[2] \in RequestKinds
    THEN [ok |-> TRUE, kind |-> "Request", variant |-> b[2],
          request_id |-> b[3], code |-> 0, data |-> << >>]
    ELSE IF Len(b) = 4 /\ b[1] = MessageResponse /\ b[2] = ResponseError
    THEN [ok |-> TRUE, kind |-> "Response", variant |-> b[2],
          request_id |-> b[3], code |-> b[4], data |-> << >>]
    ELSE IF Len(b) >= 3 /\ b[1] = MessageResponse /\ b[2] = FileContent
    THEN [ok |-> TRUE, kind |-> "Response", variant |-> b[2],
          request_id |-> b[3], code |-> 0, data |-> SubSeq(b, 4, Len(b))]
    ELSE NoMessage

\* rmp_serde::to_vec(&ErrorDetails::new(code, ..))
ErrorDetails_bytes(code) == <<code>>

----------------------------------------------------------------------------
(* AgentLoop *)

\* a file that fits a frame, and one that does not
SmallContent == <<7>>
LargeContent == [i \in 1..MaxFrameSize |-> 0]

\* what a registered handler can return for a request: a result, a result
\* too large for a frame, an error response of its own, or Err
HandlerOutcomes == {"content", "content_large", "error", "fail"}

\* handler.handle(request)
Handler_handle(id, outcome) ==
    IF outcome = "content" THEN [ok |-> TRUE,
                                 response |-> Response_content(id, SmallContent)]
    ELSE IF outcome = "content_large"
    THEN [ok |-> TRUE, response |-> Response_content(id, LargeContent)]
    ELSE IF outcome = "error"
    THEN [ok |-> TRUE, response |-> Response_error(id, FileNotFound)]
    ELSE [ok |-> FALSE, response |-> Response_error(id, 0)]

\* a handle_request that answers a missing handler with InternalError
handle_request_response_NoCode(handlers, variant, id, outcome) ==
    IF variant \in handlers
    THEN LET r == Handler_handle(id, outcome) IN
         IF r.ok THEN r.response ELSE Response_error(id, InternalError)
    ELSE Response_error(id, InternalError)

\* the response handle_request builds: the handler's, InternalError when the
\* handler fails, Unsupported when there is none
handle_request_response(handlers, variant, id, outcome) ==
    IF variant \in handlers
    THEN LET r == Handler_handle(id, outcome) IN
         IF r.ok THEN r.response ELSE Response_error(id, InternalError)
    ELSE Response_error(id, Unsupported)

\* codec.write_frame: the bytes that reach stdout, none when encoding fails
write_frame(frame) ==
    LET e == encode_frame(frame, MaxFrameSize) IN
    IF e.ok THEN <<e.bytes>> ELSE << >>

\* send_response
send_response(stream_id, sequence, response) ==
    write_frame(WireFrame(stream_id, sequence, NONE, Response_bytes(response)))

\* a send_error_frame that answers on stream 0
send_error_frame_Stream0(stream_id, sequence, code) ==
    write_frame(WireFrame(0, sequence, ERROR, ErrorDetails_bytes(code)))

\* send_error_frame
send_error_frame(stream_id, sequence, code) ==
    write_frame(WireFrame(stream_id, sequence, ERROR,
                          ErrorDetails_bytes(code)))

\* process_frame: what is written to stdout, and what was done with the frame
process_frame(handlers, frame, outcome) ==
    IF is_error(frame) \/ is_end_stream(frame)
    THEN [out |-> << >>, did |-> "control"]
    ELSE LET m == from_slice_Message(frame.payload) IN
         IF ~m.ok
         THEN [out |-> send_error_frame(frame.stream_id, frame.sequence,
                                        InvalidRequest),
               did |-> "invalid"]
         ELSE IF m.kind = "Response"
         THEN [out |-> << >>, did |-> "response"]
         ELSE [out |-> send_response(frame.stream_id, frame.sequence,
                          handle_request_response(handlers, m.variant,
                                                  m.request_id, outcome)),
               did |-> IF m.variant \in handlers THEN outcome
                       ELSE "no_handler"]

\* codec.read_frame on the agent's stdin: every byte written so far is read
read_frame(buf, in, closed) ==
    LET d1 == try_decode_frame(buf, MaxFrameSize)
        d2 == try_decode_frame(buf \o in, MaxFrameSize)
    IN IF d1.result # "None"
       THEN [result |-> d1.result, frame |-> d1.frame, buf |-> d1.buf,
             in |-> in]
       ELSE IF d2.result # "None"
       THEN [result |-> d2.result, frame |-> d2.frame, buf |-> d2.buf,
             in |-> << >>]
       ELSE IF ~closed
       THEN [result |-> "Pending", frame |-> NoFrame, buf |-> buf \o in,
             in |-> << >>]
       ELSE IF buf \o in = << >>
       THEN [result |-> "Eof", frame |-> NoFrame, buf |-> << >>,
             in |-> << >>]
       ELSE [result |-> "InvalidFrame", frame |-> NoFrame, buf |-> buf \o in,
             in |-> << >>]

\* the frames a client writes
StdinStreamIds == {1, 200}
StdinPayloads ==
    {Request_bytes(k, id) : k \in RequestKinds, id \in RequestIds}
        \cup {Response_bytes(Response_content(1, SmallContent)), <<255>>}
StdinFrames ==
    {WireFrame(s, q, NONE, p) :
        s \in StdinStreamIds, q \in 0..MaxSeq, p \in StdinPayloads}
    \cup {WireFrame(s, q, fl, p) :
        s \in StdinStreamIds, q \in 0..MaxSeq, fl \in {END_STREAM, ERROR},
        p \in {<< >>, Request_bytes(FileGet, 1)}}

\* what one write to the agent's stdin can be: a frame, the first bytes of a
\* frame, a length prefix above the maximum, a body that is no frame
StdinItems ==
    {encode_frame(f, MaxFrameSize).bytes : f \in StdinFrames}
        \cup {SubSeq(encode_frame(WireFrame(1, 0, NONE,
                         Request_bytes(FileGet, 1)), MaxFrameSize).bytes, 1, 6),
              put_u32(MaxFrameSize + 1),
              put_u32(1) \o <<255>>}

\* register_handler, before run
register_handler(k) ==
    /\ agent_pc = "setup"
    /\ k \notin agent_handlers
    /\ agent_handlers' = agent_handlers \cup {k}
    /\ UNCHANGED <<agent_pc, stdin, stdin_closed, agent_buf, agent_out,
                   stdin_items, agent_shutdown, agent_seen, agent_errors>>
    /\ UNCHANGED nonAgentVars

\* run, up to its loop
run_start ==
    /\ agent_pc = "setup"
    /\ agent_pc' = "running"
    /\ UNCHANGED <<agent_handlers, stdin, stdin_closed, agent_buf, agent_out,
                   stdin_items, agent_shutdown, agent_seen, agent_errors>>
    /\ UNCHANGED nonAgentVars

\* the client writes to the agent's stdin
stdin_write(item) ==
    /\ ~stdin_closed
    /\ stdin_items < MaxStdinItems
    /\ stdin' = stdin \o item
    /\ stdin_items' = stdin_items + 1
    /\ UNCHANGED <<agent_pc, agent_handlers, stdin_closed, agent_buf,
                   agent_out, agent_shutdown, agent_seen, agent_errors>>
    /\ UNCHANGED nonAgentVars

\* the client closes the agent's stdin
stdin_close ==
    /\ ~stdin_closed
    /\ stdin_closed' = TRUE
    /\ UNCHANGED <<agent_pc, agent_handlers, stdin, agent_buf, agent_out,
                   stdin_items, agent_shutdown, agent_seen, agent_errors>>
    /\ UNCHANGED nonAgentVars

\* the holder of shutdown_sender() sends the signal, or drops the sender
shutdown_send(how) ==
    /\ agent_shutdown = "unsent"
    /\ agent_shutdown' = how
    /\ UNCHANGED <<agent_pc, agent_handlers, stdin, stdin_closed, agent_buf,
                   agent_out, stdin_items, agent_seen, agent_errors>>
    /\ UNCHANGED nonAgentVars

\* run: the shutdown branch of the select
run_shutdown ==
    /\ agent_pc = "running"
    /\ agent_shutdown # "unsent"
    /\ agent_pc' = "stopped"
    /\ UNCHANGED <<agent_handlers, stdin, stdin_closed, agent_buf, agent_out,
                   stdin_items, agent_shutdown, agent_seen, agent_errors>>
    /\ UNCHANGED nonAgentVars

\* run: read_frame takes the bytes written so far and waits for more
run_read_pending ==
    LET r == read_frame(agent_buf, stdin, stdin_closed) IN
    /\ agent_pc = "running"
    /\ r.result = "Pending"
    /\ stdin # << >>
    /\ agent_buf' = r.buf
    /\ stdin' = r.in
    /\ UNCHANGED <<agent_pc, agent_handlers, stdin_closed, agent_out,
                   stdin_items, agent_shutdown, agent_seen, agent_errors>>
    /\ UNCHANGED nonAgentVars

\* run: read_frame returns Ok(Some(frame)) and process_frame handles it
run_frame(outcome) ==
    LET r == read_frame(agent_buf, stdin, stdin_closed)
        p == process_frame(agent_handlers, r.frame, outcome)
    IN /\ agent_pc = "running"
       /\ r.result = "Frame"
       /\ agent_buf' = r.buf
       /\ stdin' = r.in
       /\ agent_out' = agent_out \o p.out
       /\ agent_seen' = Append(agent_seen, [frame |-> r.frame, did |-> p.did])
       /\ UNCHANGED <<agent_pc, agent_handlers, stdin_closed, stdin_items,
                      agent_shutdown, agent_errors>>
       /\ UNCHANGED nonAgentVars

\* run: read_frame returns Ok(None)
run_eof ==
    LET r == read_frame(agent_buf, stdin, stdin_closed) IN
    /\ agent_pc = "running"
    /\ r.result = "Eof"
    /\ agent_pc' = "stopped"
    /\ UNCHANGED <<agent_handlers, stdin, stdin_closed, agent_buf, agent_out,
                   stdin_items, agent_shutdown, agent_seen, agent_errors>>
    /\ UNCHANGED nonAgentVars

\* run: read_frame returns Err(e); the loop continues
run_read_error ==
    LET r == read_frame(agent_buf, stdin, stdin_closed) IN
    /\ agent_pc = "running"
    /\ r.result \in {"FrameTooLarge", "InvalidFrame", "Serialization"}
    /\ agent_buf' = r.buf
    /\ stdin' = r.in
    /\ agent_errors' = agent_errors \cup {r.result}
    /\ UNCHANGED <<agent_pc, agent_handlers, stdin_closed, agent_out,
                   stdin_items, agent_shutdown, agent_seen>>
    /\ UNCHANGED nonAgentVars

NextAgent ==
    \/ \E k \in {FileGet} : register_handler(k)
    \/ run_start
    \/ \E item \in StdinItems : stdin_write(item)
    \/ stdin_close
    \/ \E how \in {"sent", "dropped"} : shutdown_send(how)
    \/ run_shutdown
    \/ run_read_pending
    \/ \E outcome \in HandlerOutcomes : run_frame(outcome)
    \/ run_eof
    \/ run_read_error

SpecAgent == InitMux /\ [][NextAgent]_vars

----------------------------------------------------------------------------
(* FrameCodec: a writer's encode_frame feeding a reader's read_buf *)

CodecFrames ==
    {WireFrame(s, q, fl, p) :
        s \in {1, 200}, q \in 0..MaxSeq, fl \in {NONE, END_STREAM},
        p \in {<< >>, <<5>>, <<5, 6, 7>>, LargeContent}}

\* encode_frame(frame), its bytes appended to the byte stream; a frame above
\* max_frame_size is refused and nothing is written
codec_encode(frame) ==
    LET e == encode_frame(frame, MaxFrameSize) IN
    /\ Len(encoded) < MaxEncoded
    /\ encoded' = IF e.ok THEN Append(encoded, frame) ELSE encoded
    /\ byte_stream' = byte_stream \o e.bytes
    /\ last_decode' = IF e.ok THEN last_decode
                      ELSE [result |-> "FrameTooLarge", buffered |-> 0,
                            consumed |-> 0]
    /\ UNCHANGED <<read_buf, decoded, last_encode>>
    /\ UNCHANGED nonCodecVars

\* read_frame: one read of n bytes, extend_from_slice
codec_read(n) ==
    /\ n <= Len(byte_stream)
    /\ read_buf' = read_buf \o SubSeq(byte_stream, 1, n)
    /\ byte_stream' = SubSeq(byte_stream, n + 1, Len(byte_stream))
    /\ UNCHANGED <<encoded, decoded, last_decode, last_encode>>
    /\ UNCHANGED nonCodecVars

\* try_decode_frame on the reader's codec
codec_try_decode ==
    LET d == try_decode_frame(read_buf, MaxFrameSize) IN
    /\ read_buf' = d.buf
    /\ decoded' = IF d.result = "Frame" THEN Append(decoded, d.frame)
                  ELSE decoded
    /\ last_decode' = [result |-> d.result, buffered |-> Len(read_buf),
                       consumed |-> Len(read_buf) - Len(d.buf)]
    /\ UNCHANGED <<encoded, byte_stream, last_encode>>
    /\ UNCHANGED nonCodecVars

NextCodec ==
    \/ \E frame \in CodecFrames : codec_encode(frame)
    \/ \E n \in 1..MaxChunk : codec_read(n)
    \/ codec_try_decode

SpecCodec == InitMux /\ [][NextCodec]_vars

\* frames whose serialized body is one below, at, one above and two above
\* the reader's max_frame_size
LimitFrames ==
    {WireFrame(1, 0, NONE, [i \in 1..n |-> 0]) :
        n \in (MaxFrameSize - 7)..(MaxFrameSize - 4)}

\* the max_frame_size of the writers: the reader's, and a larger one
WriterMaxima == {MaxFrameSize, MaxFrameSize + 1}

\* encode_frame on a codec built by with_max_frame_size(max); what it
\* returns Ok goes onto the byte stream
limit_encode(frame, max) ==
    LET e == encode_frame(frame, max) IN
    /\ e.ok => Len(encoded) < MaxEncoded
    /\ last_encode' = [result |-> IF e.ok THEN "Ok" ELSE "FrameTooLarge",
                       size |-> Len(to_msgpack(frame)), max |-> max]
    /\ encoded' = IF e.ok THEN Append(encoded, frame) ELSE encoded
    /\ byte_stream' = byte_stream \o e.bytes
    /\ UNCHANGED <<read_buf, decoded, last_decode>>
    /\ UNCHANGED nonCodecVars

\* Writers with their own limits and a reader with max_frame_size
\* MaxFrameSize on one byte stream.
NextLimit ==
    \/ \E frame \in LimitFrames, max \in WriterMaxima : limit_encode(frame, max)
    \/ \E n \in 1..MaxChunk : codec_read(n)
    \/ codec_try_decode

SpecLimit == InitMux /\ [][NextLimit]_vars

----------------------------------------------------------------------------
(* ConnectionPool *)

\* a PoolEntry as return_connection builds it
PoolEntry(conn) == [conn |-> conn, healthy |-> TRUE, connected |-> TRUE]

\* a get_existing_connection that takes the entry returned last
first_usable_Last(entries) ==
    LET usable == {i \in 1..Len(entries) :
                      entries[i].healthy /\ entries[i].connected}
    IN IF usable = {} THEN 0
       ELSE CHOOSE i \in usable : \A j \in usable : i >= j

\* get_existing_connection: the index of the first entry that is healthy
\* and connected, 0 when there is none
first_usable(entries) ==
    LET usable == {i \in 1..Len(entries) :
                      entries[i].healthy /\ entries[i].connected}
    IN IF usable = {} THEN 0
       ELSE CHOOSE i \in usable : \A j \in usable : i <= j

\* entries.remove(i)
remove_entry(entries, i) ==
    SubSeq(entries, 1, i - 1) \o SubSeq(entries, i + 1, Len(entries))

\* a return_connection that admits one entry above the limit
under_limit_Inclusive(len) == len <= MaxConnectionsPerHost

\* return_connection: entries.len() < max_connections_per_host
under_limit(len) == len < MaxConnectionsPerHost

\* a caller holds a PooledConnection or is inside get_connection
Active(c) == borrowed[c] # NoConnection \/ acquiring[c] # "none"

\* start
pool_start ==
    /\ ~pool_started
    /\ pool_started' = TRUE
    /\ UNCHANGED <<ssh_configs, connections, created, borrowed, acquiring,
                   returning, handed_out, overlapped, disturbed, discarded>>
    /\ UNCHANGED nonPoolVars

\* stop: the health check task is aborted and every pooled entry closed
pool_stop ==
    /\ pool_started
    /\ pool_started' = FALSE
    /\ connections' = [h \in Hosts |-> << >>]
    /\ disturbed' = TRUE
    /\ UNCHANGED <<ssh_configs, created, borrowed, acquiring, returning,
                   handed_out, overlapped, discarded>>
    /\ UNCHANGED nonPoolVars

\* add_host
add_host(h) ==
    /\ h \notin ssh_configs
    /\ ssh_configs' = ssh_configs \cup {h}
    /\ UNCHANGED <<pool_started, connections, created, borrowed, acquiring,
                   returning, handed_out, overlapped, disturbed, discarded>>
    /\ UNCHANGED nonPoolVars

\* get_connection, its call of get_existing_connection: a hit is returned,
\* a miss goes on to create_new_connection
get_existing_connection(c, h) ==
    LET entries == connections[h]
        i == first_usable(entries)
    IN /\ ~Active(c)
       /\ overlapped' = (overlapped \/ \E d \in Clients \ {c} : Active(d))
       /\ IF i # 0
          THEN /\ connections' = [connections EXCEPT
                                     ![h] = remove_entry(entries, i)]
               /\ borrowed' = [borrowed EXCEPT
                                  ![c] = [conn |-> entries[i].conn,
                                          host |-> h, connected |-> TRUE]]
               /\ handed_out' = [conn |-> entries[i].conn, host |-> h,
                                 entries |-> entries]
               /\ UNCHANGED acquiring
          ELSE /\ acquiring' = [acquiring EXCEPT ![c] = h]
               /\ UNCHANGED <<connections, borrowed, handed_out>>
       /\ UNCHANGED <<pool_started, ssh_configs, created, returning,
                      disturbed, discarded>>
       /\ UNCHANGED nonPoolVars

\* create_new_connection returns Err: the limit check, the missing
\* configuration, or connect_with_retries out of attempts
create_new_connection_err(c) ==
    LET h == acquiring[c] IN
    /\ h # "none"
    /\ acquiring' = [acquiring EXCEPT ![c] = "none"]
    /\ disturbed' = (disturbed \/ (/\ Len(connections[h]) < MaxConnectionsPerHost
                                   /\ h \in ssh_configs))
    /\ UNCHANGED <<pool_started, ssh_configs, connections, created, borrowed,
                   returning, handed_out, overlapped, discarded>>
    /\ UNCHANGED nonPoolVars

\* create_new_connection returns a new connection
create_new_connection(c) ==
    LET h == acquiring[c] IN
    /\ h # "none"
    /\ ~(Len(connections[h]) >= MaxConnectionsPerHost)
    /\ h \in ssh_configs
    /\ Len(created) < MaxCreated
    /\ created' = Append(created, h)
    /\ borrowed' = [borrowed EXCEPT
                       ![c] = [conn |-> Len(created) + 1, host |-> h,
                               connected |-> TRUE]]
    /\ acquiring' = [acquiring EXCEPT ![c] = "none"]
    /\ UNCHANGED <<pool_started, ssh_configs, connections, returning,
                   handed_out, overlapped, disturbed, discarded>>
    /\ UNCHANGED nonPoolVars

\* the borrower closes the connection through connection_mut()
connection_close(c) ==
    /\ borrowed[c].connected
    /\ borrowed' = [borrowed EXCEPT ![c].connected = FALSE]
    /\ disturbed' = TRUE
    /\ UNCHANGED <<pool_started, ssh_configs, connections, created,
                   acquiring, returning, handed_out, overlapped, discarded>>
    /\ UNCHANGED nonPoolVars

\* Drop for PooledConnection: the return is left to a spawned task
drop_pooled_connection(c) ==
    /\ borrowed[c] # NoConnection
    /\ returning' = returning \cup {borrowed[c]}
    /\ borrowed' = [borrowed EXCEPT ![c] = NoConnection]
    /\ UNCHANGED <<pool_started, ssh_configs, connections, created,
                   acquiring, handed_out, overlapped, disturbed, discarded>>
    /\ UNCHANGED nonPoolVars

\* return_connection, run by the spawned task
return_connection(t) ==
    /\ t \in returning
    /\ returning' = returning \ {t}
    /\ IF ~t.connected
       THEN UNCHANGED <<connections, discarded>>
       ELSE IF under_limit(Len(connections[t.host]))
       THEN /\ connections' = [connections EXCEPT
                                  ![t.host] = Append(@, PoolEntry(t.conn))]
            /\ UNCHANGED discarded
       ELSE /\ discarded' = discarded \cup {t.conn}
            /\ UNCHANGED connections
    /\ UNCHANGED <<pool_started, ssh_configs, created, borrowed, acquiring,
                   handed_out, overlapped, disturbed>>
    /\ UNCHANGED nonPoolVars

RECURSIVE retain(_, _)
\* entries.retain_mut: the entries idle for too long and the entries no
\* longer connected go, the others keep their order
retain(entries, idle) ==
    IF entries = << >> THEN << >>
    ELSE IF Head(entries).conn \in idle \/ ~Head(entries).connected
    THEN retain(Tail(entries), idle)
    ELSE <<Head(entries)>> \o retain(Tail(entries), idle)

\* one pass of health_check_loop; idle is the set of connections whose
\* last_used is older than max_idle_time
health_check_pass(idle) ==
    /\ pool_started
    /\ connections' = [h \in Hosts |-> retain(connections[h], idle)]
    /\ connections' # connections
    /\ disturbed' = TRUE
    /\ UNCHANGED <<pool_started, ssh_configs, created, borrowed, acquiring,
                   returning, handed_out, overlapped, discarded>>
    /\ UNCHANGED nonPoolVars

NextPool ==
    \/ pool_start
    \/ pool_stop
    \/ \E h \in Hosts : add_host(h)
    \/ \E c \in Clients, h \in Hosts : get_existing_connection(c, h)
    \/ \E c \in Clients : create_new_connection_err(c)
    \/ \E c \in Clients : create_new_connection(c)
    \/ \E c \in Clients : connection_close(c)
    \/ \E c \in Clients : drop_pooled_connection(c)
    \/ \E t \in returning : return_connection(t)
    \/ \E idle \in SUBSET (1..MaxCreated) : health_check_pass(idle)

SpecPool == InitMux /\ [][NextPool]_vars

----------------------------------------------------------------------------
(* Session::connect over StdioTransport (session.rs, transport.rs) *)

\* frames the connection handler writes to its connection
MaxSessionFrames == 2

SessionConfigs == [bootstrap_agent : BOOLEAN, binary_path : BOOLEAN]

\* how a run of `ssh .. command` can end (execute_command)
CommandOutcomes == {"ok", "spawn_fail", "exit_fail"}

\* test_connection also looks at the output of the command
TestOutcomes == CommandOutcomes \cup {"bad_output"}

SshProc(kind, running, exit) ==
    [kind |-> kind, running |-> running, exit |-> exit, stdin |-> 0,
     stdin_closed |-> ~running]

\* execute_command: an ssh child of its own that runs one command to its
\* end; its output is collected after it has exited
execute_command(kind, outcome) ==
    IF outcome = "spawn_fail"
    THEN ssh_procs
    ELSE Append(ssh_procs,
                SshProc(kind, FALSE,
                        IF outcome = "exit_fail" THEN "fail" ELSE "ok"))

\* Drop for Connection: start_kill on the child it holds
drop_connection(procs, c) ==
    IF c = 0
    THEN procs
    ELSE [procs EXCEPT ![c].running = FALSE, ![c].stdin_closed = TRUE,
                       ![c].exit = IF procs[c].running THEN "killed"
                                   ELSE procs[c].exit]

\* Session::connect returns Err: its locals, the connection among them, are
\* dropped and no router exists
connect_err(procs, error) ==
    /\ sess_result' = error
    /\ sess_pc' = "failed"
    /\ ssh_procs' = drop_connection(procs, sess_connection)
    /\ sess_connection' = 0
    /\ UNCHANGED <<sess_config, sess_status, sess_steps, sess_router>>

\* Session::new and the head of Session::connect
Session_new(config) ==
    /\ sess_pc = "none"
    /\ sess_config' = config
    /\ sess_status' = "Connecting"
    /\ sess_pc' = "test_connection"
    /\ UNCHANGED <<sess_steps, sess_result, ssh_procs, transport,
                   sess_connection, sess_router, remote_agent, boot_pc>>
    /\ UNCHANGED nonSessionVars

\* transport.test_connection().await .. ?
session_test_connection(outcome) ==
    /\ sess_pc = "test_connection"
    /\ IF outcome = "ok"
       THEN /\ ssh_procs' = execute_command("echo", outcome)
            /\ sess_steps' = Append(sess_steps, "test_connection")
            /\ sess_pc' = "connect"
            /\ UNCHANGED <<sess_config, sess_status, sess_result,
                           sess_connection, sess_router>>
       ELSE connect_err(execute_command("echo", outcome), "Transport")
    /\ UNCHANGED <<transport, remote_agent, boot_pc>>
    /\ UNCHANGED nonSessionVars

\* where connect goes once it has its connection: the mutant never
\* bootstraps
after_connect_NoBootstrap(config) == "router_new"

after_connect(config) ==
    IF config.bootstrap_agent THEN "get_agent_binary" ELSE "router_new"

\* transport.connect().await .. ?, then the test of config.bootstrap_agent
session_connect(test, spawned) ==
    /\ sess_pc = "connect"
    /\ IF transport.connected
       THEN /\ sess_connection' = transport.ssh_process
            /\ transport' = [transport EXCEPT !.ssh_process = 0]
            /\ sess_steps' = Append(sess_steps, "connect")
            /\ sess_pc' = after_connect(sess_config)
            /\ sess_status' = IF sess_config.bootstrap_agent
                              THEN "Bootstrapping" ELSE sess_status
            /\ UNCHANGED <<sess_config, sess_result, ssh_procs, sess_router>>
       ELSE IF test # "ok"
       THEN /\ connect_err(execute_command("echo", test), "Transport")
            /\ UNCHANGED transport
       ELSE IF ~spawned
       THEN /\ connect_err(execute_command("echo", test), "Transport")
            /\ UNCHANGED transport
       ELSE /\ ssh_procs' = Append(execute_command("echo", test),
                                   SshProc("interactive", TRUE, "none"))
            /\ transport' = [ssh_process |-> 0, connected |-> TRUE]
            /\ sess_connection' = Len(ssh_procs) + 2
            /\ sess_steps' = Append(sess_steps, "connect")
            /\ sess_pc' = after_connect(sess_config)
            /\ sess_status' = IF sess_config.bootstrap_agent
                              THEN "Bootstrapping" ELSE sess_status
            /\ UNCHANGED <<sess_config, sess_result, sess_router>>
    /\ UNCHANGED <<remote_agent, boot_pc>>
    /\ UNCHANGED nonSessionVars

\* self.get_agent_binary().await?: reading binary_path can fail, the embedded
\* binary cannot
session_get_agent_binary(read) ==
    /\ sess_pc = "get_agent_binary"
    /\ IF sess_config.binary_path /\ ~read
       THEN /\ connect_err(ssh_procs, "Agent")
            /\ UNCHANGED boot_pc
       ELSE /\ sess_pc' = "bootstrap_agent"
            /\ boot_pc' = "uname"
            /\ UNCHANGED <<sess_config, sess_status, sess_steps, sess_result,
                           ssh_procs, sess_connection, sess_router>>
    /\ UNCHANGED <<transport, remote_agent>>
    /\ UNCHANGED nonSessionVars

\* bootstrap_agent returns Err, which connect maps to MitoxideError::Agent
bootstrap_err(procs) ==
    /\ connect_err(procs, "Agent")
    /\ boot_pc' = "failed"

\* bootstrap_agent: execute_command("uname -m && uname -s")
bootstrap_uname(outcome) ==
    /\ sess_pc = "bootstrap_agent"
    /\ boot_pc = "uname"
    /\ IF outcome = "ok"
       THEN /\ ssh_procs' = execute_command("uname", outcome)
            /\ boot_pc' = "spawn"
            /\ UNCHANGED <<sess_pc, sess_config, sess_status, sess_steps,
                           sess_result, sess_connection, sess_router>>
       ELSE bootstrap_err(execute_command("uname", outcome))
    /\ UNCHANGED <<transport, remote_agent>>
    /\ UNCHANGED nonSessionVars

\* bootstrap_agent: Command::new("ssh") .. "bash" .. spawn(): a second ssh
\* child with pipes of its own
bootstrap_spawn(spawned) ==
    /\ sess_pc = "bootstrap_agent"
    /\ boot_pc = "spawn"
    /\ IF spawned
       THEN /\ ssh_procs' = Append(ssh_procs,
                                   SshProc("bootstrap", TRUE, "none"))
            /\ boot_pc' = "write"
            /\ UNCHANGED <<sess_pc, sess_config, sess_status, sess_steps,
                           sess_result, sess_connection, sess_router>>
       ELSE bootstrap_err(ssh_procs)
    /\ UNCHANGED <<transport, remote_agent>>
    /\ UNCHANGED nonSessionVars

\* the ssh child bootstrap_agent has spawned (the last one spawned)
bootstrap_child == Len(ssh_procs)

\* bootstrap_agent: write the script and the agent binary to the child's
\* stdin and shut the stdin down
bootstrap_write(written) ==
    /\ sess_pc = "bootstrap_agent"
    /\ boot_pc = "write"
    /\ IF written /\ ssh_procs[bootstrap_child].running
       THEN /\ ssh_procs' = [ssh_procs EXCEPT
                                ![bootstrap_child].stdin = 2,
                                ![bootstrap_child].stdin_closed = TRUE]
            /\ boot_pc' = "wait"
            /\ UNCHANGED <<sess_pc, sess_config, sess_status, sess_steps,
                           sess_result, sess_connection, sess_router>>
       ELSE bootstrap_err(ssh_procs)
    /\ UNCHANGED <<transport, remote_agent>>
    /\ UNCHANGED nonSessionVars

\* the remote bash of the bootstrap child has read the script and the binary
\* up to the end of its stdin and execs the agent, which inherits the stdin
\* and stdout of that ssh child
remote_exec_agent ==
    /\ boot_pc \in {"wait", "failed"}
    /\ ssh_procs # << >>
    /\ ssh_procs[bootstrap_child].kind = "bootstrap"
    /\ ssh_procs[bootstrap_child].running
    /\ ssh_procs[bootstrap_child].stdin_closed
    /\ remote_agent.state = "none"
    /\ remote_agent' = [proc |-> bootstrap_child, state |-> "running"]
    /\ UNCHANGED <<sess_pc, sess_config, sess_status, sess_steps, sess_result,
                   ssh_procs, transport, sess_connection, sess_router,
                   boot_pc>>
    /\ UNCHANGED nonSessionVars

\* the agent leaves its loop (its stdin is at the end) or dies, and the ssh
\* child that carried it exits with its status
remote_agent_exit(exit) ==
    /\ remote_agent.state = "running"
    /\ remote_agent' = [remote_agent EXCEPT !.state = "exited"]
    /\ ssh_procs' = [ssh_procs EXCEPT ![remote_agent.proc].running = FALSE,
                                      ![remote_agent.proc].exit = exit]
    /\ UNCHANGED <<sess_pc, sess_config, sess_status, sess_steps, sess_result,
                   transport, sess_connection, sess_router, boot_pc>>
    /\ UNCHANGED nonSessionVars

\* the script finds neither python3 nor a writable /tmp, or a command of it
\* fails under set -e: exit 1 without an agent
remote_script_fails ==
    /\ boot_pc \in {"write", "wait", "failed"}
    /\ ssh_procs # << >>
    /\ ssh_procs[bootstrap_child].kind = "bootstrap"
    /\ ssh_procs[bootstrap_child].running
    /\ remote_agent.state = "none"
    /\ ssh_procs' = [ssh_procs EXCEPT ![bootstrap_child].running = FALSE,
                                      ![bootstrap_child].exit = "fail"]
    /\ UNCHANGED <<sess_pc, sess_config, sess_status, sess_steps, sess_result,
                   transport, sess_connection, sess_router, remote_agent,
                   boot_pc>>
    /\ UNCHANGED nonSessionVars

\* bootstrap_agent: child.wait_with_output() returns once the child has
\* exited; Ok(()) only for a successful exit status
bootstrap_wait(waited) ==
    /\ sess_pc = "bootstrap_agent"
    /\ boot_pc = "wait"
    /\ ~ssh_procs[bootstrap_child].running
    /\ IF waited /\ ssh_procs[bootstrap_child].exit = "ok"
       THEN /\ boot_pc' = "done"
            /\ sess_steps' = Append(sess_steps, "bootstrap_agent")
            /\ sess_pc' = "router_new"
            /\ UNCHANGED <<sess_config, sess_status, sess_result, ssh_procs,
                           sess_connection, sess_router>>
       ELSE bootstrap_err(ssh_procs)
    /\ UNCHANGED <<transport, remote_agent>>
    /\ UNCHANGED nonSessionVars

\* Router::new(connection, ..).await?, status Active, ConnectedSession::new
session_router_new ==
    /\ sess_pc = "router_new"
    /\ sess_router' = sess_connection
    /\ sess_status' = "Active"
    /\ sess_result' = "Ok"
    /\ sess_pc' = "active"
    /\ UNCHANGED <<sess_config, sess_steps, ssh_procs, transport,
                   sess_connection, remote_agent, boot_pc>>
    /\ UNCHANGED nonSessionVars

\* ConnectionHandler::send_message: a frame written to connection.stdin()
router_write ==
    /\ sess_pc = "active"
    /\ sess_router # 0
    /\ ssh_procs[sess_router].running
    /\ ssh_procs[sess_router].stdin < MaxSessionFrames
    /\ ssh_procs' = [ssh_procs EXCEPT ![sess_router].stdin = @ + 1]
    /\ UNCHANGED <<sess_pc, sess_config, sess_status, sess_steps, sess_result,
                   transport, sess_connection, sess_router, remote_agent,
                   boot_pc>>
    /\ UNCHANGED nonSessionVars

\* the remote end of the interactive session goes away
remote_session_ends ==
    /\ sess_connection # 0
    /\ ssh_procs[sess_connection].running
    /\ ssh_procs' = [ssh_procs EXCEPT ![sess_connection].running = FALSE,
                                      ![sess_connection].stdin_closed = TRUE,
                                      ![sess_connection].exit = "fail"]
    /\ UNCHANGED <<sess_pc, sess_config, sess_status, sess_steps, sess_result,
                   transport, sess_connection, sess_router, remote_agent,
                   boot_pc>>
    /\ UNCHANGED nonSessionVars

NextSession ==
    \/ \E config \in SessionConfigs : Session_new(config)
    \/ \E outcome \in TestOutcomes : session_test_connection(outcome)
    \/ \E test \in TestOutcomes, spawned \in BOOLEAN :
           session_connect(test, spawned)
    \/ \E read \in BOOLEAN : session_get_agent_binary(read)
    \/ \E outcome \in CommandOutcomes : bootstrap_uname(outcome)
    \/ \E spawned \in BOOLEAN : bootstrap_spawn(spawned)
    \/ \E written \in BOOLEAN : bootstrap_write(written)
    \/ remote_exec_agent
    \/ \E exit \in {"ok", "fail"} : remote_agent_exit(exit)
    \/ remote_script_fails
    \/ \E waited \in BOOLEAN : bootstrap_wait(waited)
    \/ session_router_new
    \/ router_write
    \/ remote_session_ends

SpecSession == InitMux /\ [][NextSession]_vars

----------------------------------------------------------------------------
(* Bootstrap: detection of the methods and choice of the script
   (bootstrap.rs) *)

\* the remote hosts: what uname -s prints and whether each probe command of
\* detect_bootstrap_methods finds its capability
RemoteHosts ==
    [os : {"Linux", "Darwin"}, memfd : BOOLEAN, python : BOOLEAN,
     devshm : BOOLEAN, tmp : BOOLEAN]

\* Bootstrap::new, with_custom_script, and the host the transport leads to
Bootstrap_new(custom, host) ==
    /\ bs_pc = "none"
    /\ bs_pc' = "new"
    /\ bs_custom' = custom
    /\ bs_host' = host
    /\ UNCHANGED <<bs_methods, bs_platform, bs_script>>
    /\ UNCHANGED nonBootVars

\* detect_platform up to the call of detect_bootstrap_methods; Err when the
\* platform command fails or prints fewer than two lines
detect_platform(ok) ==
    /\ bs_pc = "new"
    /\ bs_pc' = IF ok THEN "memfd" ELSE "failed"
    /\ bs_methods' = << >>
    /\ UNCHANGED <<bs_host, bs_custom, bs_platform, bs_script>>
    /\ UNCHANGED nonBootVars

\* one probe of detect_bootstrap_methods: push the method when it is found
probe(at, found, method, next) ==
    /\ bs_pc = at
    /\ bs_pc' = next
    /\ bs_methods' = IF found THEN Append(bs_methods, method) ELSE bs_methods
    /\ UNCHANGED <<bs_host, bs_custom, bs_platform, bs_script>>
    /\ UNCHANGED nonBootVars

\* the probes in the order detect_bootstrap_methods makes them
detect_memfd ==
    probe("memfd", bs_host.os = "Linux" /\ bs_host.memfd, "MemfdCreate",
          "python")

detect_python == probe("python", bs_host.python, "Python", "devshm")

detect_devshm == probe("devshm", bs_host.devshm, "DevShm", "tmp")

detect_tmp == probe("tmp", bs_host.tmp, "TempFile", "shell")

\* methods.push(Shell), Ok(methods), and detect_platform stores the
\* PlatformInfo
detect_shell ==
    /\ bs_pc = "shell"
    /\ bs_pc' = "detected"
    /\ bs_methods' = Append(bs_methods, "Shell")
    /\ bs_platform' = [detected |-> TRUE,
                       bootstrap_methods |-> Append(bs_methods, "Shell")]
    /\ UNCHANGED <<bs_host, bs_custom, bs_script>>
    /\ UNCHANGED nonBootVars

\* generate_bootstrap_script: the method whose script it returns
chosen_script(platform, custom) ==
    IF ~platform.detected THEN "Err"
    ELSE IF custom THEN "custom"
    ELSE IF platform.bootstrap_methods = << >> THEN "Err"
    ELSE Head(platform.bootstrap_methods)

generate_bootstrap_script ==
    /\ bs_pc \in {"new", "failed", "detected"}
    /\ bs_script = "none"
    /\ bs_script' = chosen_script(bs_platform, bs_custom)
    /\ UNCHANGED <<bs_pc, bs_host, bs_custom, bs_methods, bs_platform>>
    /\ UNCHANGED nonBootVars

NextBootstrap ==
    \/ \E custom \in BOOLEAN, host \in RemoteHosts : Bootstrap_new(custom, host)
    \/ \E ok \in BOOLEAN : detect_platform(ok)
    \/ detect_memfd
    \/ detect_python
    \/ detect_devshm
    \/ detect_tmp
    \/ detect_shell
    \/ generate_bootstrap_script

SpecBootstrap == InitMux /\ [][NextBootstrap]_vars

----------------------------------------------------------------------------
(* ProcessHandler::handle under AgentLoop::handle_request (handlers.rs,
   agent.rs) *)

\* ProcessExec requests one agent answers
MaxExecRequests == 2
\* longest command (argv) of a request
MaxArgv == 2

ProcessFailed == 3
Timeout == 5

ExecRequests ==
    [command : 0..MaxArgv, timeout : BOOLEAN, stdin : BOOLEAN]

\* exit_code: output.status.code().unwrap_or(-1)
ExitCodes == {0, 1, -1}

ExecError(code) == [kind |-> "Error", code |-> code]

ProcessResult(exit_code) == [kind |-> "ProcessResult", code |-> exit_code]

\* handle_request: the response for what the handler returned; an Err of the
\* handler becomes an Error response with InternalError
handler_answer(r) == IF r.ok THEN r.response ELSE ExecError(InternalError)

\* handle_request sends the response and the call of the handler is over
exec_done(r, cause) ==
    /\ px_answers' = Append(px_answers, handler_answer(r))
    /\ px_cause' = cause
    /\ px_pc' = "done"

\* ProcessHandler::handle up to its first await: the empty command, and
\* cmd.spawn().context(..)?
exec_begin(request, spawned) ==
    /\ px_pc = "idle"
    /\ Len(px_answers) < MaxExecRequests
    /\ px_request' = request
    /\ IF request.command = 0
       THEN /\ exec_done([ok |-> TRUE, response |-> ExecError(InvalidRequest)],
                         "empty")
            /\ px_child' = NoChild
       ELSE IF ~spawned
       THEN /\ exec_done([ok |-> FALSE, response |-> ExecError(0)],
                         "spawn_failed")
            /\ px_child' = NoChild
       ELSE /\ px_child' = [state |-> "running", code |-> 0]
            /\ px_pc' = IF request.stdin THEN "stdin" ELSE "wait"
            /\ px_cause' = "none"
            /\ UNCHANGED px_answers
    /\ UNCHANGED nonExecVars

\* child_stdin.write_all(..).await: a failure is only logged
exec_write_stdin(written) ==
    /\ px_pc = "stdin"
    /\ px_pc' = "wait"
    /\ UNCHANGED <<px_request, px_child, px_cause, px_answers>>
    /\ UNCHANGED nonExecVars

\* the child process finishes
child_exits(code) ==
    /\ px_child.state = "running"
    /\ px_child' = [state |-> "exited", code |-> code]
    /\ UNCHANGED <<px_pc, px_request, px_cause, px_answers>>
    /\ UNCHANGED nonExecVars

\* child.wait_with_output() returns the output of the finished child
exec_wait_output ==
    /\ px_pc = "wait"
    /\ px_child.state = "exited"
    /\ exec_done([ok |-> TRUE, response |-> ProcessResult(px_child.code)],
                 "finished")
    /\ UNCHANGED <<px_request, px_child>>
    /\ UNCHANGED nonExecVars

\* child.wait_with_output() returns Err
exec_wait_error ==
    /\ px_pc = "wait"
    /\ exec_done([ok |-> TRUE, response |-> ExecError(ProcessFailed)],
                 "wait_failed")
    /\ UNCHANGED <<px_request, px_child>>
    /\ UNCHANGED nonExecVars

\* tokio::time::timeout elapses while the child still runs
exec_timeout ==
    /\ px_pc = "wait"
    /\ px_request.timeout
    /\ px_child.state = "running"
    /\ exec_done([ok |-> TRUE, response |-> ExecError(Timeout)], "timeout")
    /\ UNCHANGED <<px_request, px_child>>
    /\ UNCHANGED nonExecVars

\* the agent loop reads its next frame
exec_next ==
    /\ px_pc = "done"
    /\ px_pc' = "idle"
    /\ px_child' = NoChild
    /\ UNCHANGED <<px_request, px_cause, px_answers>>
    /\ UNCHANGED nonExecVars

NextExec ==
    \/ \E request \in ExecRequests, spawned \in BOOLEAN :
           exec_begin(request, spawned)
    \/ \E written \in BOOLEAN : exec_write_stdin(written)
    \/ \E code \in ExitCodes : child_exits(code)
    \/ exec_wait_output
    \/ exec_wait_error
    \/ exec_timeout
    \/ exec_next

SpecExec == InitMux /\ [][NextExec]_vars

----------------------------------------------------------------------------
(* WasmModule::from_bytes (mitoxide-wasm/src/module.rs) *)

\* MAX_MODULE_SIZE (64 MiB), scaled to the lengths of the model
MaxModuleSize == 12

\* b"\0asm"
WasmMagic == <<0, 97, 115, 109>>

\* the first four bytes of the inputs: the magic, a near miss, an ELF file
Heads == {WasmMagic, <<0, 97, 115, 110>>, <<127, 69, 76, 70>>}

\* the kinds of import a module can have: wasi_* modules with names that
\* start with fd_, sock_, environ_ or something else, module "env", and any
\* other module
ImportKinds == {"wasi_fd", "wasi_sock", "wasi_environ", "wasi_other", "env",
                "host"}

ModuleLengths == {0, 3, 7, 8, 9, MaxModuleSize, MaxModuleSize + 1}

Min(a, b) == IF a < b THEN a ELSE b

\* the inputs of from_bytes; only bytes that begin with the magic and are
\* longer than the 8 byte header can parse to a module with imports or
\* exports
ModuleBytes ==
    {[len |-> n, head |-> SubSeq(h, 1, Min(n, 4)), parses |-> p,
      imports |-> i, exports_start |-> e] :
        n \in ModuleLengths, h \in Heads, p \in BOOLEAN,
        i \in SUBSET ImportKinds, e \in BOOLEAN}

WellFormed(bytes) ==
    /\ bytes.parses => bytes.len >= 8 /\ bytes.head = WasmMagic
    /\ (~bytes.parses \/ bytes.len = 8) =>
           bytes.imports = {} /\ ~bytes.exports_start

\* validate_basic_format
validate_basic_format(bytes) ==
    IF bytes.len < 8 THEN "InvalidFormat"
    ELSE IF SubSeq(bytes.head, 1, 4) # WasmMagic THEN "InvalidFormat"
    ELSE IF bytes.len > MaxModuleSize THEN "ModuleValidation"
    ELSE "Ok"

\* extract_metadata: Module::from_binary, then the capabilities, exports and
\* is_wasi read off the imports and exports
extract_metadata(bytes) ==
    LET wasi == {i \in bytes.imports :
                     i \in {"wasi_fd", "wasi_sock", "wasi_environ",
                            "wasi_other"}}
    IN [ok |-> bytes.parses,
        is_wasi |-> wasi # {},
        capabilities |->
            (IF "wasi_fd" \in wasi THEN {"WasiFs", "WasiStdio"} ELSE {})
            \cup (IF "wasi_environ" \in wasi THEN {"WasiEnv"} ELSE {})
            \cup (IF "wasi_sock" \in wasi THEN {"WasiNet"} ELSE {})
            \cup (IF "host" \in bytes.imports THEN {"HostFunctions"} ELSE {})
            \cup (IF wasi # {} THEN {"WasiStdio"} ELSE {}),
        exports |-> IF bytes.exports_start THEN {"_start"} ELSE {}]

\* a validate_module that looks at the exports before the capabilities
validate_module_StartFirst(metadata) ==
    IF metadata.is_wasi /\ "_start" \notin metadata.exports
    THEN "ModuleValidation"
    ELSE IF "WasiNet" \in metadata.capabilities THEN "UnsupportedCapability"
    ELSE "Ok"

\* validate_module
validate_module(metadata) ==
    IF "WasiNet" \in metadata.capabilities THEN "UnsupportedCapability"
    ELSE IF metadata.is_wasi /\ "_start" \notin metadata.exports
    THEN "ModuleValidation"
    ELSE "Ok"

\* WasmModule::from_bytes: the error of the first step that fails, or Ok
WasmModule_from_bytes(bytes) ==
    LET basic == validate_basic_format(bytes)
        metadata == extract_metadata(bytes)
    IN IF basic # "Ok" THEN basic
       ELSE IF ~metadata.ok THEN "ModuleLoad"
       ELSE validate_module(metadata)

\* the bytes of a module are read (from_file: fs::read)
wasm_read(bytes) ==
    /\ wasm_pc = "none"
    /\ WellFormed(bytes)
    /\ wasm_pc' = "read"
    /\ wasm_bytes' = bytes
    /\ UNCHANGED wasm_result
    /\ UNCHANGED nonWasmVars

\* from_bytes is called on them
wasm_from_bytes ==
    /\ wasm_pc = "read"
    /\ wasm_pc' = "loaded"
    /\ wasm_result' = WasmModule_from_bytes(wasm_bytes)
    /\ UNCHANGED wasm_bytes
    /\ UNCHANGED nonWasmVars

NextWasm ==
    \/ \E bytes \in ModuleBytes : wasm_read(bytes)
    \/ wasm_from_bytes

SpecWasm == InitMux /\ [][NextWasm]_vars

----------------------------------------------------------------------------
(* AgentRouter (mitoxide-agent/src/router.rs) *)

\* frames given to route_frame
MaxRouted == 3

\* frames a peer sends to the agent router: requests, a payload that is no
\* message, and an END_STREAM frame
RouterFrames ==
    {WireFrame(s, 0, NONE, Request_bytes(FileGet, id)) :
         s \in {1, 2}, id \in RequestIds}
    \cup {WireFrame(1, 0, NONE, <<255>>), WireFrame(1, 0, END_STREAM, << >>)}

\* what the handlers of the requests return
RouterOutcomes == {"content", "error"}

Writer(pc, frame) == [pc |-> pc, frame |-> frame, bytes |-> << >>, pos |-> 0]

\* writer.lock().await completes: the mutant does not wait for the holder
lock_free_Always(lock) == TRUE

lock_free(lock) == lock = 0

\* no call of route_frame is in send_error_frame
route_idle ==
    \A w \in 1..Len(ar_writers) :
        ar_writers[w].pc \in {"process", "lock", "write", "done"}

\* AgentRouter::route_frame: control frames end here, a payload that is no
\* message is answered with an error frame, a request goes to the channel,
\* a response is dropped
ar_route_frame(frame) ==
    /\ ar_routed < MaxRouted
    /\ route_idle
    /\ ar_routed' = ar_routed + 1
    /\ IF is_error(frame) \/ is_end_stream(frame)
       THEN UNCHANGED <<ar_queue, ar_writers>>
       ELSE LET m == from_slice_Message(frame.payload) IN
            IF ~m.ok
            THEN /\ ar_writers' =
                        Append(ar_writers,
                               Writer("route_lock",
                                      WireFrame(frame.stream_id,
                                                frame.sequence, ERROR,
                                                ErrorDetails_bytes(
                                                    InvalidRequest))))
                 /\ UNCHANGED ar_queue
            ELSE IF m.kind = "Request"
            THEN /\ ar_queue' = Append(ar_queue,
                                       [stream_id |-> frame.stream_id,
                                        sequence |-> frame.sequence,
                                        variant |-> m.variant,
                                        request_id |-> m.request_id])
                 /\ UNCHANGED ar_writers
            ELSE UNCHANGED <<ar_queue, ar_writers>>
    /\ UNCHANGED <<ar_lock, ar_out, ar_started, ar_contended>>
    /\ UNCHANGED nonArVars

\* start_processing: request_rx.recv() and tokio::spawn; the task runs
\* process_request and builds the frame of send_response
ar_spawn(outcome) ==
    /\ ar_queue # << >>
    /\ LET q == Head(ar_queue)
           r == handle_request_response({FileGet}, q.variant, q.request_id,
                                        outcome)
       IN ar_writers' =
              Append(ar_writers,
                     Writer("lock", WireFrame(q.stream_id, q.sequence, NONE,
                                              Response_bytes(r))))
    /\ ar_queue' = Tail(ar_queue)
    /\ UNCHANGED <<ar_routed, ar_lock, ar_out, ar_started, ar_contended>>
    /\ UNCHANGED nonArVars

\* send_response / send_error_frame: the lock is taken, then write_frame
\* encodes the frame
ar_acquire(w) ==
    /\ w \in 1..Len(ar_writers)
    /\ ar_writers[w].pc \in {"lock", "route_lock"}
    /\ lock_free(ar_lock)
    /\ LET e == encode_frame(ar_writers[w].frame, MaxFrameSize) IN
       IF e.ok
       THEN /\ ar_lock' = w
            /\ ar_writers' = [ar_writers EXCEPT ![w].pc = "write",
                                                ![w].bytes = e.bytes]
            /\ ar_started' = Append(ar_started, e.bytes)
       ELSE /\ ar_writers' = [ar_writers EXCEPT ![w].pc = "done"]
            /\ UNCHANGED <<ar_lock, ar_started>>
    /\ UNCHANGED <<ar_routed, ar_queue, ar_out, ar_contended>>
    /\ UNCHANGED nonArVars

\* write_all: the writer takes the next n bytes of the frame
ar_write(w, n) ==
    /\ w \in 1..Len(ar_writers)
    /\ ar_writers[w].pc = "write"
    /\ ar_writers[w].pos + n <= Len(ar_writers[w].bytes)
    /\ ar_out' = ar_out \o SubSeq(ar_writers[w].bytes, ar_writers[w].pos + 1,
                                  ar_writers[w].pos + n)
    /\ ar_writers' = [ar_writers EXCEPT ![w].pos = @ + n]
    /\ ar_contended' =
           (ar_contended
            \/ \E v \in 1..Len(ar_writers) :
                   v # w /\ ar_writers[v].pc \in {"lock", "route_lock"})
    /\ UNCHANGED <<ar_routed, ar_queue, ar_lock, ar_started>>
    /\ UNCHANGED nonArVars

\* flush, and the guard is dropped when send_response / send_error_frame
\* returns
ar_release(w) ==
    /\ w \in 1..Len(ar_writers)
    /\ ar_writers[w].pc = "write"
    /\ ar_writers[w].pos = Len(ar_writers[w].bytes)
    /\ ar_writers' = [ar_writers EXCEPT ![w].pc = "done"]
    /\ ar_lock' = IF ar_lock = w THEN 0 ELSE ar_lock
    /\ UNCHANGED <<ar_routed, ar_queue, ar_out, ar_started, ar_contended>>
    /\ UNCHANGED nonArVars

NextAgentRouter ==
    \/ \E frame \in RouterFrames : ar_route_frame(frame)
    \/ \E outcome \in RouterOutcomes : ar_spawn(outcome)
    \/ \E w \in 1..MaxRouted : ar_acquire(w)
    \/ \E w \in 1..MaxRouted, n \in 1..MaxChunk : ar_write(w, n)
    \/ \E w \in 1..MaxRouted : ar_release(w)

SpecAgentRouter == InitMux /\ [][NextAgentRouter]_vars

----------------------------------------------------------------------------
(* ConnectionPool::connect_with_retries (pool.rs) *)

\* largest PoolConfig.max_retries (3 in PoolConfig::default)
MaxRetries == 4

\* how timeout(connection_timeout, transport.connect()) can end: connected,
\* one of two errors of the transport, or the timeout elapsed
AttemptOutcomes == {"Ok", "Connection", "Authentication", "Elapsed"}

\* the error an attempt leaves in last_error
attempt_error(outcome) == IF outcome = "Elapsed" THEN "Timeout" ELSE outcome

\* a loop that sleeps after every failed attempt
sleeps_after_Every(attempt, max_retries) == TRUE

\* if attempt < self.config.max_retries { sleep(retry_delay) }
sleeps_after(attempt, max_retries) == attempt < max_retries

\* the call returns
rt_return(r) ==
    /\ rt_pc' = "done"
    /\ rt_result' = r

\* Err(last_error.unwrap_or_else(..))
rt_exhausted(last_error) ==
    IF last_error = "None" THEN "Err(All connection attempts failed)"
    ELSE last_error

\* the head of the for loop: the next attempt, or the return after the last
rt_loop(attempt, last_error) ==
    IF attempt <= rt_max
    THEN /\ rt_pc' = "attempt"
         /\ rt_attempt' = attempt
         /\ UNCHANGED rt_result
    ELSE /\ rt_return(rt_exhausted(last_error))
         /\ UNCHANGED rt_attempt

\* connect_with_retries is called under a configuration
connect_with_retries(max_retries) ==
    /\ rt_pc = "idle"
    /\ rt_max' = max_retries
    /\ rt_last_error' = "None"
    /\ IF 1 <= max_retries
       THEN /\ rt_pc' = "attempt"
            /\ rt_attempt' = 1
            /\ UNCHANGED rt_result
       ELSE /\ rt_return(rt_exhausted("None"))
            /\ UNCHANGED rt_attempt
    /\ UNCHANGED rt_log
    /\ UNCHANGED nonRetryVars

\* one attempt: timeout(connection_timeout, transport.connect()).await
rt_connect(outcome) ==
    /\ rt_pc = "attempt"
    /\ rt_log' = Append(rt_log, outcome)
    /\ IF outcome = "Ok"
       THEN /\ rt_return("Ok")
            /\ UNCHANGED <<rt_attempt, rt_last_error>>
       ELSE /\ rt_last_error' = attempt_error(outcome)
            /\ IF sleeps_after(rt_attempt, rt_max)
               THEN /\ rt_pc' = "sleep"
                    /\ UNCHANGED <<rt_attempt, rt_result>>
               ELSE rt_loop(rt_attempt + 1, attempt_error(outcome))
    /\ UNCHANGED rt_max
    /\ UNCHANGED nonRetryVars

\* sleep(retry_delay).await is over
rt_sleep ==
    /\ rt_pc = "sleep"
    /\ rt_log' = Append(rt_log, "sleep")
    /\ rt_loop(rt_attempt + 1, rt_last_error)
    /\ UNCHANGED <<rt_max, rt_last_error>>
    /\ UNCHANGED nonRetryVars

NextRetry ==
    \/ \E max_retries \in 0..MaxRetries : connect_with_retries(max_retries)
    \/ \E outcome \in AttemptOutcomes : rt_connect(outcome)
    \/ rt_sleep

SpecRetry == InitMux /\ [][NextRetry]_vars

----------------------------------------------------------------------------
(* ConnectionPool::health_check_loop (pool.rs) *)

\* PoolConfig.max_idle_time, in units of the clock
MaxIdleTime == 2

\* how far the clock runs
MaxClock == 4

\* how many connections callers hold at once
MaxHeld == 2

\* a PoolEntry: when it was last used and what is_connected() reports
TimedEntry(last_used, connected) ==
    [last_used |-> last_used, connected |-> connected]

\* a check that lets an entry stay one unit longer
too_old_Late(now, last_used) == now - last_used > MaxIdleTime + 1

\* now.duration_since(entry.last_used) > config.max_idle_time
too_old(now, last_used) == now - last_used > MaxIdleTime

RECURSIVE retain_mut(_, _)
\* entries.retain_mut(..) of the health check: the entries too old are
\* closed and go, the entries not connected go, the others stay in order
retain_mut(entries, now) ==
    IF entries = << >> THEN << >>
    ELSE IF too_old(now, Head(entries).last_used)
    THEN retain_mut(Tail(entries), now)
    ELSE IF ~Head(entries).connected
    THEN retain_mut(Tail(entries), now)
    ELSE <<Head(entries)>> \o retain_mut(Tail(entries), now)

\* the index of the first entry that is connected, 0 when there is none
\* (every entry is healthy: only the health check clears the flag, on
\* entries it drops)
first_connected(entries) ==
    LET usable == {i \in 1..Len(entries) : entries[i].connected}
    IN IF usable = {} THEN 0
       ELSE CHOOSE i \in usable : \A j \in usable : i <= j

RECURSIVE SumLen(_, _)
SumLen(m, hs) ==
    IF hs = {} THEN 0
    ELSE LET h == CHOOSE k \in hs : TRUE
         IN Len(m[h]) + SumLen(m, hs \ {h})

\* the number of entries of all hosts
TotalLen(m) == SumLen(m, DOMAIN m)

\* time passes
hc_tick ==
    /\ hc_now < MaxClock
    /\ hc_now' = hc_now + 1
    /\ hc_checked' = FALSE
    /\ UNCHANGED <<hc_connections, hc_held, hc_reaped>>
    /\ UNCHANGED nonHealthVars

\* connect_with_retries gave a caller a new connection
hc_create_new_connection ==
    /\ hc_held < MaxHeld
    /\ hc_held' = hc_held + 1
    /\ hc_checked' = FALSE
    /\ UNCHANGED <<hc_now, hc_connections, hc_reaped>>
    /\ UNCHANGED nonHealthVars

\* get_existing_connection takes the first usable entry of the host; the
\* host keeps its list even when this was the last entry
hc_get_existing_connection(h) ==
    /\ hc_held < MaxHeld
    /\ h \in DOMAIN hc_connections
    /\ first_connected(hc_connections[h]) # 0
    /\ hc_connections' =
           [hc_connections EXCEPT
               ![h] = remove_entry(@, first_connected(@))]
    /\ hc_held' = hc_held + 1
    /\ hc_checked' = FALSE
    /\ UNCHANGED <<hc_now, hc_reaped>>
    /\ UNCHANGED nonHealthVars

\* return_connection: a connection that is not connected is dropped, the
\* others enter the list of the host, made if absent, while it is under
\* the limit
hc_return_connection(h, connected) ==
    /\ hc_held > 0
    /\ hc_held' = hc_held - 1
    /\ IF ~connected
       THEN UNCHANGED hc_connections
       ELSE LET entries == IF h \in DOMAIN hc_connections
                           THEN hc_connections[h] ELSE << >>
                pushed == IF under_limit(Len(entries))
                          THEN Append(entries, TimedEntry(hc_now, TRUE))
                          ELSE entries
            IN hc_connections' =
                   [k \in DOMAIN hc_connections \cup {h} |->
                       IF k = h THEN pushed ELSE hc_connections[k]]
    /\ hc_checked' = FALSE
    /\ UNCHANGED <<hc_now, hc_reaped>>
    /\ UNCHANGED nonHealthVars

\* one pass of health_check_loop under the write lock: retain_mut on every
\* host, then the hosts with no entry left are removed
hc_pass ==
    /\ LET kept == [h \in DOMAIN hc_connections |->
                       retain_mut(hc_connections[h], hc_now)]
       IN /\ hc_connections' =
                 [h \in {k \in DOMAIN kept : kept[k] # << >>} |-> kept[h]]
          /\ hc_reaped' = hc_reaped + TotalLen(hc_connections)
                                    - TotalLen(kept)
    /\ hc_checked' = TRUE
    /\ UNCHANGED <<hc_now, hc_held>>
    /\ UNCHANGED nonHealthVars

NextHealth ==
    \/ hc_tick
    \/ hc_create_new_connection
    \/ \E h \in Hosts : hc_get_existing_connection(h)
    \/ \E h \in Hosts, connected \in BOOLEAN :
           hc_return_connection(h, connected)
    \/ hc_pass

SpecHealth == InitMux /\ [][NextHealth]_vars

----------------------------------------------------------------------------
(* ConnectionHandler::send_message over a long run of messages (router.rs) *)

\* how many messages the handler is given: one more than U32, so that the
\* counter passes 2^32-1
MaxMessages == U32 + 1

\* an addition that stops at the largest value
wrapping_add_Saturating(a, b) == IF a + b >= U32 THEN U32 - 1 ELSE a + b

\* u32::wrapping_add
wrapping_add(a, b) == (a + b) % U32

\* send_message: the id is taken from the counter, the counter advances, the
\* frame is built with sequence 0 and FrameFlags::NONE, and stdin takes it
\* or the write fails
sm_send_message(written) ==
    /\ sm_handled < MaxMessages
    /\ sm_handled' = sm_handled + 1
    /\ sm_next_stream_id' = wrapping_add(sm_next_stream_id, 1)
    /\ sm_frames' = Append(sm_frames,
                           [stream_id |-> sm_next_stream_id,
                            sequence |-> 0,
                            flags |-> NONE,
                            written |-> written])
    /\ UNCHANGED nonSendVars

NextSend ==
    \E written \in BOOLEAN : sm_send_message(written)

SpecSend == InitMux /\ [][NextSend]_vars

----------------------------------------------------------------------------
(* The sequence counters of one stream over a long run (stream.rs) *)

\* how many frames are sent and how many accepted: one more than U32, so
\* that the counters pass 2^32-1
MaxFrames == U32 + 1

\* send_data with an empty payload, which no window refuses: the sequence is
\* next_sequence.fetch_add(1), which wraps
sq_send_data ==
    /\ Len(sq_sent) < MaxFrames
    /\ sq_sent' = Append(sq_sent, sq_handle_next)
    /\ sq_handle_next' = (sq_handle_next + 1) % U32
    /\ sq_ret' = "Ok"
    /\ UNCHANGED <<sq_info_next, sq_accepted, sq_panicked>>
    /\ UNCHANGED nonSeqVars

\* route_frame for a frame of the peer with the given sequence:
\* InvalidFrame unless it is the next one; stream_info.next_sequence += 1
\* panics on overflow in a build with overflow checks and wraps in a build
\* without
sq_route_frame(sequence, overflow_checks) ==
    /\ ~sq_panicked
    /\ Len(sq_accepted) < MaxFrames
    /\ IF sequence # sq_info_next
       THEN /\ sq_ret' = "InvalidFrame"
            /\ UNCHANGED <<sq_info_next, sq_accepted, sq_panicked>>
       ELSE IF sq_info_next = U32 - 1 /\ overflow_checks
       THEN /\ sq_panicked' = TRUE
            /\ sq_ret' = "panic"
            /\ UNCHANGED <<sq_info_next, sq_accepted>>
       ELSE /\ sq_info_next' = (sq_info_next + 1) % U32
            /\ sq_accepted' = Append(sq_accepted, sequence)
            /\ sq_ret' = "Ok"
            /\ UNCHANGED sq_panicked
    /\ UNCHANGED <<sq_handle_next, sq_sent>>
    /\ UNCHANGED nonSeqVars

NextSeq ==
    \/ sq_send_data
    \/ \E sequence \in 0..(U32 - 1), overflow_checks \in BOOLEAN :
           sq_route_frame(sequence, overflow_checks)

SpecSeq == InitMux /\ [][NextSeq]_vars

----------------------------------------------------------------------------
(* WasmHandler: the module cache (handlers.rs, module.rs) *)

\* WasmExec requests handled per module
MaxWasmExecs == 3

\* the modules sent to the handler: a WASI module with _start, a module
\* without imports, and bytes cut short of the header
HandlerModules ==
    {[len |-> 9, head |-> WasmMagic, parses |-> TRUE,
      imports |-> {"wasi_fd"}, exports_start |-> TRUE],
     [len |-> 9, head |-> WasmMagic, parses |-> TRUE,
      imports |-> {}, exports_start |-> FALSE],
     [len |-> 3, head |-> SubSeq(WasmMagic, 1, 3), parses |-> FALSE,
      imports |-> {}, exports_start |-> FALSE]}

\* the SHA-256 digest of the bytes, taken as free of collisions: it names
\* the content and nothing else
Sha256(bytes) ==
    <<"sha256", bytes.len, bytes.head, bytes.parses, bytes.imports,
      bytes.exports_start>>

\* how often the history counts the bytes
Count(history, bytes) ==
    IF bytes \in DOMAIN history THEN history[bytes] ELSE 0

\* the history with one more occurrence of the bytes
Counted(history, bytes) == PutKey(history, bytes, Count(history, bytes) + 1)

\* a WasmModule value: its bytes and whether its compiled field is Some
LoadedModule(bytes, compiled) == [bytes |-> bytes, compiled |-> compiled]

\* WasmHandler::handle for a WasmExec request.  get_or_load_module calls
\* WasmModule::from_bytes, then returns a clone of the cache's entry for the
\* hash or inserts a clone of the module just loaded, whose compiled field
\* is None.  The runtime compiles the module it was given when its compiled
\* field is None and runs it; the compiled module stays in the handler's
\* clone.
wh_handle(bytes, runs) ==
    LET hash == Sha256(bytes)
        hit == hash \in DOMAIN wh_module_cache
        loaded == WasmModule_from_bytes(bytes)
        module == IF hit THEN wh_module_cache[hash]
                  ELSE LoadedModule(bytes, FALSE)
    IN
    /\ Count(wh_executed, bytes) < MaxWasmExecs
    /\ wh_executed' = Counted(wh_executed, bytes)
    /\ wh_parsed' = Counted(wh_parsed, bytes)
    /\ IF loaded # "Ok"
       THEN /\ wh_response' = "WasmFailed: Module loading failed"
            /\ UNCHANGED <<wh_module_cache, wh_compiled>>
       ELSE /\ wh_compiled' = IF module.compiled THEN wh_compiled
                              ELSE Counted(wh_compiled, bytes)
            /\ wh_module_cache' = PutKey(wh_module_cache, hash, module)
            /\ wh_response' = IF runs THEN "WasmResult"
                              ELSE "WasmFailed: Execution failed"
    /\ UNCHANGED nonCacheVars

NextCache ==
    \E bytes \in HandlerModules, runs \in BOOLEAN : wh_handle(bytes, runs)

SpecCache == InitMux /\ [][NextCache]_vars

----------------------------------------------------------------------------
(* Properties of the multiplexer (SpecMux) *)

\* the receive queue of handle h holds the last frames delivered to it
QueueIsTail(h) ==
    LET n == Len(delivered[h])
        m == Len(rx[h])
    IN /\ m <= n
       /\ \A i \in 1..m : rx[h][i].sequence = delivered[h][n - m + i]

\* C2: for every stream, the frames delivered to its receive queue carry the
\* sequences 0, 1, 2, ... in increasing order, without gap or duplicate,
\* whatever the order in which frames are offered to route_frame.
C2_InOrderDelivery ==
    \A h \in HandleIds :
        /\ \A i \in 1..Len(delivered[h]) : delivered[h][i] = i - 1
        /\ QueueIsTail(h)

\* frames were offered out of order, and a stream still received three frames
C2_Witness ==
    \E h \in HandleIds :
        /\ Len(delivered[h]) = MaxSeq + 1
        /\ handles[h].stream_id \in mismatched

\* C3: once a frame has arrived on a stream with a sequence other than the
\* expected one, the stream is torn down: no frame is delivered to it again.
C3_TornDownAfterMismatch ==
    [][\A h \in HandleIds :
          handles[h].stream_id \in mismatched => delivered'[h] = delivered[h]]_vars

\* what the multiplexer holds for stream id s: its table entry and the
\* receive queues and delivery histories of its handles
StreamView(s) ==
    <<IF s \in DOMAIN streams THEN <<streams[s]>> ELSE << >>,
      [h \in {x \in HandleIds : handles[x].stream_id = s} |->
          <<handles[h], rx[h], delivered[h]>>]>>

\* a step in which route_frame handles frame f, called directly or by
\* process_frames
RoutingStep(f) ==
    \/ route_frame_mux(f)
    \/ (frame_queue # << >> /\ Head(frame_queue) = f /\ process_frames_mux)

\* a step in which a flow-control call on stream s is refused
RefusedFlowStep(s) ==
    /\ s \in DOMAIN streams
    /\ streams[s].flow_control.recv_window < InitialWindowSize + 1
    /\ process_received_data(s, InitialWindowSize + 1)

----------------------------------------------------------------------------
(* Properties of flow control (SpecFlow) *)

\* the payload does not fit the windows of the stream
ExceedsWindow(fc, size) ==
    \/ size > fc.send_window
    \/ fc.bytes_in_flight + size > fc.initial_window_size

\* C5: send_data on an open handle of a registered stream, with a payload
\* that exceeds the send window or would push the bytes in flight past the
\* initial window, returns FlowControlViolation, puts no frame in the frame
\* channel and leaves the windows and the handle's next sequence unchanged.
C5_RefusedSendChangesNothing ==
    [][\A h \in HandleIds, n \in PayloadSizes :
          (/\ ~handles[h].dropped
           /\ handles[h].pc = "idle"
           /\ handles[h].state # "Closed"
           /\ handles[h].stream_id \in DOMAIN streams
           /\ ExceedsWindow(streams[handles[h].stream_id].flow_control, n)
           /\ send_data_check(h, n))
          => /\ ret' = Ret("send_data", handles[h].stream_id,
                           "FlowControlViolation")
             /\ frame_queue' = frame_queue
             /\ streams' = streams
             /\ handles'[h].next_sequence = handles[h].next_sequence
             /\ handles'[h].pc = "idle"
      ]_vars

\* send_data was refused after an earlier payload had been accepted
C5_Witness ==
    /\ ret.op = "send_data"
    /\ ret.res = "FlowControlViolation"
    /\ frame_queue # << >>
    /\ \E h \in HandleIds : handles[h].next_sequence = Len(frame_queue)

\* C6: in every state of a stream, bytes_in_flight is at most the initial
\* window, for any interleaving of sends and window updates.
C6_InFlightBounded ==
    \A sid \in DOMAIN streams :
        streams[sid].flow_control.bytes_in_flight
            <= streams[sid].flow_control.initial_window_size

\* after window updates, the bytes in flight fill the initial window while
\* send credits remain
C6_Witness ==
    \E sid \in DOMAIN streams :
        /\ streams[sid].flow_control.bytes_in_flight
              = streams[sid].flow_control.initial_window_size
        /\ streams[sid].flow_control.send_window > 0

----------------------------------------------------------------------------
(* Properties of the router and the session (SpecRouter) *)

SendMessageErrors == {"Timeout", "Protocol(Failed to send message)",
                      "Protocol(Response channel closed)"}

\* C1: a call of send_message that returns Ok returns a response whose
\* request id is the id of the message it sent (and no response with another
\* id ever sits in its response channel); a call that does not succeed
\* returns one error and no response.
C1_ResponseMatchesRequest ==
    \A c \in Calls :
        /\ slot[c].state = "value" => slot[c].value.request_id = call_id[c]
        /\ call_pc[c] = "done" =>
              \/ /\ result[c].kind = "Ok"
                 /\ result[c].value.request_id = call_id[c]
              \/ /\ result[c].kind \in SendMessageErrors
                 /\ result[c].value = NoResponse
        /\ call_pc[c] # "done" => result[c] = NoResult

\* two requests are on the wire, and the caller of the later one has its
\* response while the caller of the earlier one still waits
C1_Witness ==
    \E c1, c2 \in Calls :
        /\ Len(wire) = 2
        /\ wire[1].request_id = call_id[c1]
        /\ wire[2].request_id = call_id[c2]
        /\ call_id[c1] # call_id[c2]
        /\ call_pc[c1] = "waiting"
        /\ slot[c1].state = "empty"
        /\ call_pc[c2] = "done"
        /\ result[c2].kind = "Ok"

\* C7: the pending map holds no entry for a call of send_message that has
\* returned (in particular one that returned Timeout).
C7_NoEntryForReturnedCall ==
    \A id \in DOMAIN pending : call_pc[pending[id]] # "done"

\* C8: a call that was pending when the handler stopped on a closed transport
\* or a read error returns the Error response "Router shutdown".
C8_PendingCompletedAtStop ==
    \A c \in pending_at_stop :
        call_pc[c] = "done" => result[c] = OkResult(ShutdownResponse(call_id[c]))

\* C9: a call that was outstanding when disconnect shut the router down
\* returns the Error response "Router shutdown".
C9_DisconnectCompletesWaiters ==
    \A c \in outstanding_at_shutdown :
        call_pc[c] = "done" => result[c] = OkResult(ShutdownResponse(call_id[c]))

\* C10: once disconnect has returned, it has returned success and the session
\* is Disconnected.
C10_DisconnectSucceeds ==
    disc_pc = "done" => /\ disc_result = "Ok"
                        /\ status = "Disconnected"

----------------------------------------------------------------------------
(* Properties of the agent loop (SpecAgent) *)

\* a step of run in which process_frame took a frame
ProcessStep == Len(agent_seen') = Len(agent_seen) + 1

\* the frame that step took, what was done with it, what the step wrote
ProcessedFrame == agent_seen'[Len(agent_seen')].frame
ProcessedAs == agent_seen'[Len(agent_seen')].did
NewOutput == SubSeq(agent_out', Len(agent_out) + 1, Len(agent_out'))

\* a frame without ERROR and END_STREAM whose payload is a Request
IsRequestFrame(f) ==
    /\ ~is_error(f)
    /\ ~is_end_stream(f)
    /\ from_slice_Message(f.payload).kind = "Request"

\* the written bytes are one frame, on the stream and with the sequence of f
WrittenFor(bytes, f) ==
    LET d == try_decode_frame(bytes, MaxFrameSize) IN
    /\ d.result = "Frame"
    /\ d.buf = << >>
    /\ d.frame.stream_id = f.stream_id
    /\ d.frame.sequence = f.sequence

\* the written bytes are a response frame for the request in f
AnswersRequest(bytes, f) ==
    LET d == try_decode_frame(bytes, MaxFrameSize)
        m == from_slice_Message(d.frame.payload)
    IN /\ WrittenFor(bytes, f)
       /\ ~is_error(d.frame)
       /\ m.ok
       /\ m.kind = "Response"
       /\ m.request_id = from_slice_Message(f.payload).request_id

\* the written bytes are an Error response with this code
ErrorResponseWith(bytes, code) ==
    LET m == from_slice_Message(try_decode_frame(bytes, MaxFrameSize)
                                    .frame.payload)
    IN m.variant = ResponseError /\ m.code = code

\* C11: for every frame carrying a Request the agent loop writes exactly one
\* response frame, with the stream_id and sequence of the request frame and a
\* Response whose request_id is the request's id; ERROR frames, END_STREAM
\* frames and frames carrying a Response produce no output frame.
C11_OneResponsePerRequest ==
    [][ProcessStep =>
         IF IsRequestFrame(ProcessedFrame)
         THEN /\ Len(NewOutput) = 1
              /\ AnswersRequest(NewOutput[1], ProcessedFrame)
         ELSE ProcessedAs \in {"control", "response"} => NewOutput = << >>
      ]_vars

\* C12: a request whose kind has no registered handler is answered with an
\* Error response with code Unsupported, a request whose handler fails with
\* an Error response with code InternalError; both carry the request's id.
C12_UnsupportedAndInternalError ==
    [][(ProcessStep /\ ProcessedAs \in {"no_handler", "fail"}) =>
         /\ IsRequestFrame(ProcessedFrame)
         /\ Len(NewOutput) = 1
         /\ AnswersRequest(NewOutput[1], ProcessedFrame)
         /\ ErrorResponseWith(NewOutput[1],
                              IF ProcessedAs = "no_handler"
                              THEN Unsupported ELSE InternalError)
      ]_vars

\* a request without a handler and a request whose handler failed have both
\* been answered
C12_Witness ==
    /\ Len(agent_out) = 2
    /\ \E i, j \in 1..Len(agent_seen) :
          /\ agent_seen[i].did = "no_handler"
          /\ agent_seen[j].did = "fail"

\* C13: the agent loop terminates on stdin EOF, on the shutdown signal, and
\* on a fatal protocol error while reading a frame: EOF in the middle of a
\* frame, or an announced length above the maximum.
C13_StopsOnFatalReadError ==
    (agent_errors \cap {"InvalidFrame", "FrameTooLarge"} # {})
        => agent_pc = "stopped"

\* a frame with an undeserializable payload has been processed before
SeenInvalid == \E i \in 1..Len(agent_seen) : agent_seen[i].did = "invalid"

\* C14: when a data frame's payload does not deserialize as a Message, the
\* agent writes an error frame for the same (stream_id, sequence) with code
\* InvalidRequest and keeps running; every later well-formed request on the
\* connection is still answered.
C14_InvalidPayloadAnswered ==
    [][/\ (ProcessStep /\ ProcessedAs = "invalid") =>
             /\ Len(NewOutput) = 1
             /\ WrittenFor(NewOutput[1], ProcessedFrame)
             /\ LET g == try_decode_frame(NewOutput[1], MaxFrameSize).frame
                IN is_error(g) /\ g.payload = ErrorDetails_bytes(InvalidRequest)
             /\ agent_pc' = "running"
       /\ (ProcessStep /\ SeenInvalid /\ IsRequestFrame(ProcessedFrame)) =>
             /\ Len(NewOutput) = 1
             /\ AnswersRequest(NewOutput[1], ProcessedFrame)
      ]_vars

----------------------------------------------------------------------------
(* Properties of the codec (SpecCodec) *)

RECURSIVE EncodingOf(_)
\* the bytes of a sequence of frames, each encoded by encode_frame
EncodingOf(frames) ==
    IF frames = << >> THEN << >>
    ELSE encode_frame(Head(frames), MaxFrameSize).bytes
             \o EncodingOf(Tail(frames))

\* the frames encoded and not yet decoded
Undecoded == SubSeq(encoded, Len(decoded) + 1, Len(encoded))

\* C20: the concatenated encodings of f1..fn, fed to a decoder in arbitrary
\* chunks, decode to exactly f1..fn in order, equal in stream_id, sequence,
\* flags and payload; try_decode_frame returns None while fewer than
\* 4 + length bytes are buffered, and consumes exactly 4 + length bytes per
\* frame.
C20_ChunkedDecoding ==
    /\ Len(decoded) <= Len(encoded)
    /\ \A i \in 1..Len(decoded) : decoded[i] = encoded[i]
    /\ read_buf \o byte_stream = EncodingOf(Undecoded)
    /\ last_decode.result \in {"none", "None", "Frame", "FrameTooLarge"}
    /\ last_decode.result = "Frame" =>
          /\ last_decode.consumed = 4 + Len(to_msgpack(decoded[Len(decoded)]))
          /\ last_decode.buffered >= last_decode.consumed
    /\ last_decode.result = "None" =>
          /\ last_decode.consumed = 0
          /\ \/ last_decode.buffered < 4
             \/ /\ Undecoded # << >>
                /\ last_decode.buffered < 4 + Len(to_msgpack(Head(Undecoded)))

\* two different frames, one with a two-byte stream id, have been decoded
\* from reads that split them, the second after a None
C20_Witness ==
    /\ Len(decoded) = 2
    /\ decoded = encoded
    /\ decoded[1] # decoded[2]
    /\ decoded[1].stream_id = 200
    /\ decoded[2].payload = <<5, 6, 7>>
    /\ read_buf = << >>
    /\ byte_stream = << >>
    /\ last_decode.result = "Frame"
    /\ last_decode.buffered = last_decode.consumed

----------------------------------------------------------------------------
(* Properties of the connection pool (SpecPool) *)

\* how many connections were created for host h
CreatedFor(h) == Cardinality({n \in 1..Len(created) : created[n] = h})

\* C15: after any number of sequential get_connection / release cycles
\* (release = dropping the borrowed handle) for one host whose connection
\* stays healthy, at most one connection was created.
C15_OneConnectionForSequentialUse ==
    (~overlapped /\ ~disturbed) => \A h \in Hosts : CreatedFor(h) <= 1

\* C16: in every reachable state the pool holds at most
\* max_connections_per_host entries for each host.
C16_PoolWithinLimit ==
    \A h \in Hosts : Len(connections[h]) <= MaxConnectionsPerHost

\* a return found the pool of its host full, and the pool is full
C16_Witness ==
    /\ discarded # {}
    /\ \E h \in Hosts : Len(connections[h]) = MaxConnectionsPerHost

\* where connection n is: with borrowers, with return tasks, in the pool
Holders(n) ==
    Cardinality({c \in Clients : borrowed[c].conn = n})
        + Cardinality({t \in returning : t.conn = n})
        + Cardinality({<<h, i>> \in Hosts \X (1..MaxConnectionsPerHost + 1) :
                          i <= Len(connections[h])
                              /\ connections[h][i].conn = n})

\* C17: get_connection hands out a pooled entry only if it is healthy and
\* connected, takes the first such entry in insertion order and removes it
\* from the pool; a connection is never held by two borrowers at once.
C17_FirstUsableTakenOnce ==
    /\ handed_out # NoHandOut =>
          LET es == handed_out.entries
              usable == {i \in 1..Len(es) : es[i].healthy /\ es[i].connected}
          IN \E i \in usable :
                /\ es[i].conn = handed_out.conn
                /\ \A j \in usable : i <= j
    /\ \A n \in 1..Len(created) : Holders(n) <= 1

\* a pool of two entries gave its first to a borrower who still holds it,
\* while another borrower holds another connection
C17_Witness ==
    /\ Len(handed_out.entries) = 2
    /\ \E c, d \in Clients :
          /\ c # d
          /\ borrowed[c].conn = handed_out.conn
          /\ borrowed[d] # NoConnection
          /\ borrowed[d].host = borrowed[c].host

----------------------------------------------------------------------------
(* Properties of stream ids and of closed streams (SpecClone, SpecClose) *)

\* C18: stream ids start at 1 and strictly increase in the order the
\* streams are created; no id is handed out twice, neither after a close
\* nor through a clone of the multiplexer.
C18_StreamIdsUnique ==
    /\ handles # << >> => handles[1].stream_id = 1
    /\ \A g, h \in HandleIds :
          g < h => handles[g].stream_id < handles[h].stream_id

\* the stream of handle h is Closed: by the handle's close, or by an
\* END_STREAM frame routed to it
StreamIsClosed(h) ==
    \/ handles[h].state = "Closed"
    \/ /\ handles[h].stream_id \in DOMAIN streams
       /\ streams[handles[h].stream_id].state = "Closed"

\* a step in which handle h begins send_data or calls send_end_stream
SendCall(h) ==
    /\ handles[h].pc = "idle"
    /\ ret'.op \in {"send_data", "send_end_stream"}
    /\ ret'.sid = handles[h].stream_id

\* C19: once a stream is Closed, by local close or by an inbound
\* END_STREAM, send_data and send_end_stream on it fail with StreamClosed
\* and emit no frame.
C19_NoSendAfterClosed ==
    [][\A h \in HandleIds :
          (StreamIsClosed(h) /\ SendCall(h)) =>
              /\ ret'.res = "StreamClosed"
              /\ frame_queue' = frame_queue
              /\ handles'[h].pc = "idle"
      ]_vars

----------------------------------------------------------------------------
(* Properties of the frame size limit (SpecLimit) *)

\* a step in which try_decode_frame was called
DecodeStep == last_decode' # last_decode

\* C21: encode_frame fails with FrameTooLarge exactly when the serialized
\* frame body is larger than the codec's maximum, try_decode_frame fails
\* with FrameTooLarge exactly when the announced length is larger than that
\* maximum; a body of exactly the maximum size is accepted by both.
C21_FrameTooLargeExactlyAboveMax ==
    [][/\ last_encode' # last_encode =>
             (last_encode'.result = "FrameTooLarge"
                 <=> last_encode'.size > last_encode'.max)
       /\ DecodeStep =>
             (last_decode'.result = "FrameTooLarge"
                 <=> (Len(read_buf) >= 4 /\ get_u32(read_buf) > MaxFrameSize))
       /\ (/\ DecodeStep
           /\ Len(read_buf) >= 4
           /\ get_u32(read_buf) = MaxFrameSize
           /\ Len(read_buf) >= 4 + MaxFrameSize) =>
             /\ last_decode'.result = "Frame"
             /\ Len(to_msgpack(decoded'[Len(decoded')])) = MaxFrameSize
      ]_vars

\* a frame whose body has exactly the maximum size was encoded and decoded,
\* a body one byte larger was refused by encode_frame, and a length prefix
\* one above the maximum, written by a writer with a larger limit, was
\* refused by try_decode_frame
C21_Witness ==
    /\ decoded # << >>
    /\ Len(to_msgpack(decoded[1])) = MaxFrameSize
    /\ last_encode = [result |-> "FrameTooLarge", size |-> MaxFrameSize + 1,
                      max |-> MaxFrameSize]
    /\ last_decode.result = "FrameTooLarge"
    /\ Len(read_buf) >= 4
    /\ get_u32(read_buf) = MaxFrameSize + 1

----------------------------------------------------------------------------
(* Properties of Session::connect (SpecSession) *)

\* the transport calls connect makes for its configuration, in order
StepsFor(config) ==
    IF config.bootstrap_agent
    THEN <<"test_connection", "connect", "bootstrap_agent">>
    ELSE <<"test_connection", "connect">>

\* C22: a session is Active only when test_connection, connect and, with
\* bootstrap enabled, bootstrap_agent have each succeeded, in that order, and
\* then it has its router; a call that ended in an error never became Active
\* and has no router.
C22_ActiveOnlyAfterAllSteps ==
    /\ sess_status = "Active" =>
           /\ sess_steps = StepsFor(sess_config)
           /\ sess_result = "Ok"
           /\ sess_router # 0
    /\ sess_router # 0 => sess_status = "Active"
    /\ sess_pc = "failed" =>
           /\ sess_result \in {"Transport", "Agent"}
           /\ sess_status # "Active"
           /\ sess_router = 0
    /\ sess_result \in {"Transport", "Agent"} => sess_pc = "failed"

\* an Active session that was bootstrapped, beside one that failed
C22_Witness ==
    /\ sess_status = "Active"
    /\ sess_config.bootstrap_agent
    /\ sess_steps = <<"test_connection", "connect", "bootstrap_agent">>
    /\ sess_router # 0

\* C23: once a session with bootstrap enabled is Active, the agent that the
\* bootstrap started has as its stdin and stdout the remote end of the
\* connection the router writes to and reads from.
C23_AgentOnRouterConnection ==
    (sess_status = "Active" /\ sess_config.bootstrap_agent) =>
        /\ remote_agent.proc = sess_router
        /\ remote_agent.state = "running"

----------------------------------------------------------------------------
(* Properties of Bootstrap (SpecBootstrap) *)

\* the priority order of the strategies
Priority == <<"MemfdCreate", "DevShm", "TempFile", "Python", "Shell">>

\* the capabilities detect_bootstrap_methods has found
Detected == {bs_platform.bootstrap_methods[i] :
                 i \in 1..Len(bs_platform.bootstrap_methods)}

\* the first strategy of the priority order among the detected ones
FirstByPriority ==
    Priority[CHOOSE i \in 1..Len(Priority) :
                 /\ Priority[i] \in Detected
                 /\ \A j \in 1..(i - 1) : Priority[j] \notin Detected]

\* C24: the script generated for a detected platform (no custom script) is
\* that of the first detected strategy in the order MemfdCreate, DevShm,
\* TempFile, Python, Shell.
C24_FirstAvailableByPriority ==
    (bs_script \notin {"none", "Err", "custom"}) =>
        bs_script = FirstByPriority

----------------------------------------------------------------------------
(* Properties of ProcessHandler (SpecExec) *)

\* the response sent for the request just handled
LastAnswer == px_answers[Len(px_answers)]

\* C25: a ProcessExec with an empty command is answered with Error
\* InvalidRequest, one whose process cannot be spawned with Error
\* ProcessFailed, and one whose timeout expires with Error Timeout.
C25_ExecErrorCodes ==
    /\ px_cause = "empty" => LastAnswer = ExecError(InvalidRequest)
    /\ px_cause = "spawn_failed" => LastAnswer = ExecError(ProcessFailed)
    /\ px_cause = "timeout" => LastAnswer = ExecError(Timeout)

----------------------------------------------------------------------------
(* Properties of WasmModule::from_bytes (SpecWasm) *)

HasMagic == Len(wasm_bytes.head) = 4 /\ wasm_bytes.head = WasmMagic

RequestsNet == "wasi_sock" \in wasm_bytes.imports

IsWasi ==
    wasm_bytes.imports \cap
        {"wasi_fd", "wasi_sock", "wasi_environ", "wasi_other"} # {}

\* C26: a load returns Ok only for bytes of at least 8 bytes that start with
\* the magic, are not larger than the maximum, do not ask for WasiNet and,
\* when WASI, export _start; the first of these checks that fails, in this
\* order, decides the error: InvalidFormat, InvalidFormat, ModuleValidation,
\* UnsupportedCapability, ModuleValidation.
C26_LoadChecksInOrder ==
    wasm_pc = "loaded" =>
        /\ wasm_result = "Ok" =>
               /\ wasm_bytes.len >= 8
               /\ HasMagic
               /\ wasm_bytes.len <= MaxModuleSize
               /\ ~RequestsNet
               /\ IsWasi => wasm_bytes.exports_start
        /\ wasm_bytes.len < 8 => wasm_result = "InvalidFormat"
        /\ (wasm_bytes.len >= 8 /\ ~HasMagic) => wasm_result = "InvalidFormat"
        /\ (wasm_bytes.len > MaxModuleSize /\ HasMagic) =>
               wasm_result = "ModuleValidation"
        /\ (wasm_bytes.len \in 8..MaxModuleSize /\ wasm_bytes.parses
            /\ RequestsNet) =>
               wasm_result = "UnsupportedCapability"
        /\ (wasm_bytes.len \in 8..MaxModuleSize /\ wasm_bytes.parses
            /\ ~RequestsNet /\ IsWasi /\ ~wasm_bytes.exports_start) =>
               wasm_result = "ModuleValidation"

\* a WASI module of the largest size allowed, exporting _start, is loaded
C26_Witness ==
    /\ wasm_pc = "loaded"
    /\ wasm_result = "Ok"
    /\ wasm_bytes.len = MaxModuleSize
    /\ IsWasi
    /\ wasm_bytes.exports_start

----------------------------------------------------------------------------
(* Properties of the connection handler task (SpecRouter) *)

\* C27: the connection handler leaves its loop only when a shutdown has been
\* requested (the session's disconnect has been called) or when its
\* transport has closed or failed; it does not stop otherwise.
C27_HandlerStopsOnlyWhenAsked ==
    h_pc = "stopped" =>
        \/ h_reason \in {"transport_closed", "read_error"}
        \/ h_reason = "shutdown" /\ disc_pc # "idle"

\* the handler handles a Response whose id is not in the pending map
UnknownResponseStep ==
    \E id \in ReqIds, body \in RemoteBodies :
        /\ id \notin DOMAIN pending
        /\ handler_incoming_response(RemoteResponse(id, body))

\* the waiter of call c is handed a response in this step
Completed(c) == slot[c].state # "value" /\ slot'[c].state = "value"

\* C28: a waiter is handed a response only together with the removal of its
\* entry from the pending map, the response carrying that entry's id, and no
\* other waiter or entry is touched, so that no entry completes twice; a
\* Response with an id that is not in the map changes neither the map nor
\* any waiter.
C28_CompletedAtMostOnce ==
    [][/\ \A c \in Calls :
              Completed(c) =>
                  \E id \in DOMAIN pending :
                      /\ pending[id] = c
                      /\ slot'[c].value.request_id = id
                      /\ DOMAIN pending' = (DOMAIN pending) \ {id}
                      /\ \A j \in DOMAIN pending' : pending'[j] = pending[j]
                      /\ \A d \in Calls \ {c} : slot'[d] = slot[d]
       /\ UnknownResponseStep => (pending' = pending /\ slot' = slot)]_vars

\* one waiter has its response and its entry is gone while the entry of
\* another call is still in the map, its waiter empty
C28_Witness ==
    \E c, d \in Calls :
        /\ c # d
        /\ slot[c].state = "value"
        /\ slot[c].value.request_id = call_id[c]
        /\ call_id[c] \notin DOMAIN pending
        /\ call_id[d] \in DOMAIN pending
        /\ pending[call_id[d]] = d
        /\ slot[d].state = "empty"
        /\ call_pc[d] = "waiting"

----------------------------------------------------------------------------
(* Properties of the connection pool, continued (SpecPool) *)

\* the connections of host h that are alive: held by a borrower or idle in
\* the pool, and connected
Live(h) ==
    Cardinality({c \in Clients :
                     borrowed[c].host = h /\ borrowed[c].connected})
        + Cardinality({i \in 1..Len(connections[h]) :
                           connections[h][i].connected})

\* C29: for each host the live connections, idle and borrowed together, are
\* never more than max_connections_per_host.
C29_LiveWithinLimit == \A h \in Hosts : Live(h) <= MaxConnectionsPerHost

----------------------------------------------------------------------------
(* Properties of the multiplexer, continued (SpecMux) *)

\* C30: once a frame with END_STREAM has been routed to a stream (its entry
\* in the table is Closed), no step delivers another frame to the receive
\* queue of that stream.
C30_NothingDeliveredAfterEndStream ==
    [][\A sid \in DOMAIN streams :
           streams[sid].state = "Closed" =>
               delivered'[streams[sid].frame_sender]
                   = delivered[streams[sid].frame_sender]]_vars

----------------------------------------------------------------------------
(* Properties of the AgentRouter (SpecAgentRouter) *)

RECURSIVE Flatten(_)
Flatten(seqs) ==
    IF seqs = << >> THEN << >> ELSE Head(seqs) \o Flatten(Tail(seqs))

\* C31: the bytes on the agent router's writer are the frames whose writes
\* have begun, whole and one after the other in that order, the last of them
\* possibly still being written; bytes of two frames are never interleaved.
C31_FramesContiguous ==
    LET all == Flatten(ar_started)
        before == IF ar_started = << >> THEN 0
                  ELSE Len(all) - Len(ar_started[Len(ar_started)])
    IN /\ Len(ar_out) <= Len(all)
       /\ ar_out = SubSeq(all, 1, Len(ar_out))
       /\ Len(ar_out) >= before

\* two frames are out whole although a writer had to wait for the other
C31_Witness ==
    /\ ar_contended
    /\ Len(ar_started) = 2
    /\ ar_out = ar_started[1] \o ar_started[2]
    /\ ar_started[1] # ar_started[2]

----------------------------------------------------------------------------
(* Properties of a handle's END_STREAM frames (SpecClose) *)

\* the END_STREAM frames the handle h has put on the frame channel, from
\* which nothing is taken in SpecClose
EndStreamsOf(h) ==
    {i \in 1..Len(frame_queue) :
         /\ frame_queue[i].end_stream
         /\ frame_queue[i].stream_id = handles[h].stream_id}

\* C32: a stream handle emits at most one END_STREAM frame, whatever calls
\* of send_end_stream and close are made on it.
C32_AtMostOneEndStream ==
    \A h \in HandleIds : Cardinality(EndStreamsOf(h)) <= 1

----------------------------------------------------------------------------
(* Properties of a handle's outbound frames (SpecLoop) *)

\* C33: the frames a handle sends are outbound only: process_frames of the
\* same multiplexer delivers none of them to the receive queue of a local
\* stream and advances no local stream's expected inbound sequence.
C33_SentFramesNotRoutedLocally ==
    /\ \A h \in HandleIds : delivered[h] = << >>
    /\ \A sid \in DOMAIN streams : streams[sid].next_sequence = 0

----------------------------------------------------------------------------
(* Properties of connect_with_retries (SpecRetry) *)

\* the positions of the attempts in the log
Attempts == {i \in 1..Len(rt_log) : rt_log[i] # "sleep"}

\* C34: a call makes at most max_retries attempts and none after a success;
\* it sleeps only between two attempts, after a failed one; an attempt that
\* exceeds the timeout counts as a Timeout failure; when every attempt has
\* failed the call returns the error of the last attempt.
C34_RetriesUntilSuccess ==
    /\ Cardinality(Attempts) <= rt_max
    /\ \A i \in 1..Len(rt_log) : rt_log[i] = "Ok" => i = Len(rt_log)
    /\ \A i \in 1..Len(rt_log) :
           rt_log[i] = "sleep" =>
               /\ i > 1
               /\ rt_log[i - 1] \notin {"Ok", "sleep"}
               /\ i < Len(rt_log) \/ rt_pc = "attempt"
    /\ rt_pc = "done" =>
           /\ rt_result = "Ok" <=>
                  (rt_log # << >> /\ rt_log[Len(rt_log)] = "Ok")
           /\ (rt_log # << >> /\ rt_log[Len(rt_log)] = "Elapsed") =>
                  rt_result = "Timeout"
           /\ (rt_log # << >>
               /\ rt_log[Len(rt_log)] \in {"Connection", "Authentication"}) =>
                  rt_result = rt_log[Len(rt_log)]
           /\ rt_result # "Ok" => Cardinality(Attempts) = rt_max

\* three attempts, the last one timing out after two different errors
C34_Witness ==
    /\ rt_pc = "done"
    /\ rt_max = 3
    /\ rt_log = <<"Connection", "sleep", "Authentication", "sleep", "Elapsed">>
    /\ rt_result = "Timeout"

----------------------------------------------------------------------------
(* Properties of the health check (SpecHealth) *)

\* C35: right after a pass of the health check no entry left in the pool
\* has been idle for longer than max_idle_time, every entry left is
\* connected, and no host is mapped to an empty list.
C35_PassLeavesFreshEntries ==
    hc_checked =>
        \A h \in DOMAIN hc_connections :
            /\ hc_connections[h] # << >>
            /\ \A i \in 1..Len(hc_connections[h]) :
                   /\ hc_now - hc_connections[h][i].last_used <= MaxIdleTime
                   /\ hc_connections[h][i].connected

\* a pass dropped the old entry of one host, whose list went with it, and
\* kept a fresh entry of the other
C35_Witness ==
    /\ hc_checked
    /\ hc_reaped = 1
    /\ hc_now = MaxIdleTime + 1
    /\ DOMAIN hc_connections = {"h2"}
    /\ hc_connections["h2"] = <<TimedEntry(MaxIdleTime + 1, TRUE)>>

----------------------------------------------------------------------------
(* Properties of the eviction of streams (SpecEvict) *)

\* the step routes the frame, directly or from the frame channel
Routes(f) ==
    \/ route_frame(f)
    \/ process_frames_step /\ Head(frame_queue) = f

\* the stream was created and is no longer in the table
Evicted(sid) == sid < next_stream_id /\ sid \notin DOMAIN streams

\* C36: when the receiver of a stream has been dropped, the next frame in
\* sequence routed to the stream removes the stream from the table; from
\* then on the stream stays absent and every frame for its id fails with
\* InvalidStreamId.
C36_DroppedReceiverEvicts ==
    [][/\ \A f \in OfferedFrames :
              (/\ route_result(f) = "Ok"
               /\ ~ReceiverAlive(streams[f.stream_id].frame_sender)
               /\ Routes(f))
              => Evicted(f.stream_id)'
       /\ \A f \in OfferedFrames :
              Evicted(f.stream_id) =>
                  /\ Evicted(f.stream_id)'
                  /\ route_result(f) = "InvalidStreamId"
                  /\ route_result(f)' = "InvalidStreamId"]_vars

\* the first stream was evicted after its handle had been dropped, the second
\* is still served
C36_Witness ==
    /\ Len(handles) = 2
    /\ handles[1].dropped
    /\ Evicted(handles[1].stream_id)
    /\ handles[2].stream_id \in DOMAIN streams

----------------------------------------------------------------------------
(* Properties of the stream ids of the connection handler (SpecSend) *)

\* C37: the k-th message the connection handler sends has stream id k,
\* counted from 1 and modulo 2^32, so that the id after 2^32-1 is 0 and the
\* message is sent all the same; every message travels in a data frame with
\* sequence 0.
C37_StreamIdsCountMessages ==
    /\ Len(sm_frames) = sm_handled
    /\ \A k \in 1..Len(sm_frames) :
           /\ sm_frames[k].stream_id = k % U32
           /\ sm_frames[k].sequence = 0
           /\ sm_frames[k].flags = NONE

\* the message after the one with id 2^32-1 was written with id 0
C37_Witness ==
    /\ Len(sm_frames) >= U32
    /\ sm_frames[U32 - 1].stream_id = U32 - 1
    /\ sm_frames[U32].stream_id = 0
    /\ sm_frames[U32].written

----------------------------------------------------------------------------
(* Properties of the sequence counters (SpecSeq) *)

\* no 0 follows the largest sequence in the history
NoWrap(history) ==
    \A i \in 1..Len(history) : \A j \in (i + 1)..Len(history) :
        history[i] = U32 - 1 => history[j] # 0

\* C38: the sequence counters of a stream do not wrap around: once a frame
\* with sequence 2^32-1 has been sent or accepted on the stream, no frame
\* with sequence 0 is sent or accepted on it.
C38_SequencesNeverWrap ==
    /\ NoWrap(sq_sent)
    /\ NoWrap(sq_accepted)

----------------------------------------------------------------------------
(* Properties of the windows against the configuration (SpecFlow) *)

\* C39: the send window and the receive window of a stream stay within the
\* configured max_window_size, whatever sends, window updates and
\* acknowledgements happen.
C39_WindowsWithinMax ==
    \A sid \in DOMAIN streams :
        /\ streams[sid].flow_control.send_window <= MaxWindowSize
        /\ streams[sid].flow_control.recv_window <= MaxWindowSize

----------------------------------------------------------------------------
(* Properties of the module cache (SpecCache) *)

\* C40: bytes the handler has run once are served from the cache when they
\* are run again: they are parsed once and compiled once, however often
\* they are executed.
C40_CachedModuleNotReloaded ==
    \A m \in HandlerModules :
        Sha256(m) \in DOMAIN wh_module_cache =>
            /\ Count(wh_parsed, m) <= 1
            /\ Count(wh_compiled, m) <= 1

====
